---------------------------- MODULE Spec2Model ----------------------------
(***************************************************************************)
(* Model of the client-parser user-agent classifier.                       *)
(*                                                                         *)
(* Two variants of getDeviceType live in the repository:                   *)
(*   flat : getDeviceType(userAgent)            src/src/constants/regex.ts *)
(*          lines 191-371, with the registry of lines 21-66;               *)
(*   rich : getDeviceType(userAgent, platform)  src/src/index.cts          *)
(*          lines 30-295, with the registry of regex.ts lines 76-159.      *)
(*                                                                         *)
(* A user-agent string is a sequence of atoms.  Every atom stands for the  *)
(* literal text of its name ("Windows Phone", "Edg", "e", "/", "1", ...);  *)
(* the string is the concatenation of its atoms.  The regular expressions  *)
(* of the registry are kept as syntax trees over atoms and are run by a    *)
(* backtracking matcher with the semantics of String.prototype.match:      *)
(* leftmost start, alternatives in order, greedy and lazy repetition,      *)
(* capture groups.                                                         *)
(***************************************************************************)
EXTENDS Integers, Sequences, FiniteSets

VARIABLES variant, userAgent, platform, pc, deviceInfo, osFired, browserFired,
          allDeviceResults, order

vars ==
    <<variant, userAgent, platform, pc, deviceInfo, osFired, browserFired,
      allDeviceResults, order>>

----------------------------------------------------------------------------
(* Values of JavaScript that are not strings of atoms.                     *)

\* undefined, in a field that holds a name (a TLA+ string)
undefined == "undefined"

\* undefined, in a field or capture that holds a version (a sequence of atoms)
UNDEFINED == <<"undefined">>

\* the string 'unknown' in a version field
UNKNOWN == <<"unknown">>

\* the null reference passed as userAgent.  It is not a string: test()
\* converts its argument to the text "null", which no pattern of the
\* registry matches, while null.match(...) raises a TypeError
null == <<"null">>

----------------------------------------------------------------------------
(* Character classes, as sets of one-character atoms.                      *)

DIGIT == {"0", "1", "2", "3", "4", "5", "6", "7", "8", "9"}

\* the one-letter atoms of the alphabet
LETTER == {"e", "A", "T", "X"}

\* [\d.]
DIGIT_DOT == DIGIT \cup {"."}

\* [\d_]
DIGIT_US == DIGIT \cup {"_"}

\* [\d_.]
DIGIT_US_DOT == DIGIT \cup {"_", "."}

\* [A-Z0-9] under the i flag
ALNUM == DIGIT \cup LETTER

----------------------------------------------------------------------------
(* Regular expression syntax trees.                                        *)

Lit(a) == [t |-> "lit", a |-> a]

Cls(S) == [t |-> "cls", s |-> S]

\* . matches any atom: no atom of the alphabet holds a line terminator
Dot == [t |-> "any"]

Cat(rs) == [t |-> "cat", rs |-> rs]

Alt(l, r) == [t |-> "alt", l |-> l, r |-> r]

\* r* greedy
Star(r) == [t |-> "star", r |-> r]

\* r*? lazy
LazyStar(r) == [t |-> "lazy", r |-> r]

\* r+ greedy
Plus(r) == Cat(<<r, Star(r)>>)

\* r+? lazy
LazyPlus(r) == Cat(<<r, LazyStar(r)>>)

\* (?:r)?
Opt(r) == Alt(r, Cat(<<>>))

\* capture group k
Cap(k, r) == [t |-> "cap", k |-> k, r |-> r]

\* the end of capture group k, opened at position from
CapEnd(k, from) == [t |-> "end", k |-> k, from |-> from]

NoCaptures == <<UNDEFINED, UNDEFINED>>

NoMatch == [ok |-> FALSE]

\* s[i+1 .. i+Len(a)] = a
HasPrefixAt(s, i, a) ==
    /\ i + Len(a) <= Len(s)
    /\ \A j \in 1..Len(a) : s[i + j] = a[j]

\* the one-atom pattern r (a class or the dot) matches the atom a
AtomMatches(r, a) == IF r.t = "any" THEN TRUE ELSE a \in r.s

\* how many atoms from position i on the one-atom pattern r can consume
RunLength(r, s, i) ==
    CHOOSE n \in 0..(Len(s) - i) :
        /\ \A j \in 1..n : AtomMatches(r, s[i + j])
        /\ i + n < Len(s) => ~AtomMatches(r, s[i + n + 1])

Max(S) == CHOOSE x \in S : \A y \in S : y <= x

Min(S) == CHOOSE x \in S : \A y \in S : x <= y

RECURSIVE MatchAt(_, _, _, _)
\* Backtracking match of the regex stack rs against s from position i (the
\* atoms before position i+1 are consumed), with captures c so far.  A
\* repetition is always of a one-atom pattern: the greedy one takes the
\* longest run after which the rest matches, the lazy one the shortest.
MatchAt(rs, s, i, c) ==
    IF rs = <<>> THEN [ok |-> TRUE, e |-> i, c |-> c]
    ELSE LET r == Head(rs)
             k == Tail(rs)
         IN CASE r.t = "lit" ->
                   IF HasPrefixAt(s, i, r.a)
                   THEN MatchAt(k, s, i + Len(r.a), c) ELSE NoMatch
              [] r.t \in {"cls", "any"} ->
                   IF i < Len(s) /\ AtomMatches(r, s[i + 1])
                   THEN MatchAt(k, s, i + 1, c) ELSE NoMatch
              [] r.t = "cat" -> MatchAt(r.rs \o k, s, i, c)
              [] r.t = "alt" ->
                   LET first == MatchAt(<<r.l>> \o k, s, i, c)
                   IN IF first.ok THEN first ELSE MatchAt(<<r.r>> \o k, s, i, c)
              [] r.t \in {"star", "lazy"} ->
                   LET runs == {n \in 0..RunLength(r.r, s, i) :
                                    MatchAt(k, s, i + n, c).ok}
                   IN IF runs = {} THEN NoMatch
                      ELSE IF r.t = "star"
                      THEN MatchAt(k, s, i + Max(runs), c)
                      ELSE MatchAt(k, s, i + Min(runs), c)
              [] r.t = "cap" ->
                   MatchAt(<<r.r, CapEnd(r.k, i)>> \o k, s, i, c)
              [] r.t = "end" ->
                   MatchAt(k, s, i,
                           [c EXCEPT ![r.k] = SubSeq(s, r.from + 1, i)])

\* the leftmost match of r in s
Search(r, s) ==
    LET starts == {i \in 0..Len(s) : MatchAt(<<r>>, s, i, NoCaptures).ok}
    IN IF starts = {} THEN NoMatch
       ELSE MatchAt(<<r>>, s, Min(starts), NoCaptures)

\* userAgent.match(regex): the match record, or NoMatch for null
Match(s, r) == Search(r, s)

\* regex.test(userAgent)
Test(r, s) == Match(s, r).ok

RECURSIVE ReplaceFirst_(_)
\* version.replace('_', '.'): only the first underscore is replaced
ReplaceFirst_(v) ==
    IF v = <<>> THEN <<>>
    ELSE IF Head(v) = "_" THEN <<".">> \o Tail(v)
    ELSE <<Head(v)>> \o ReplaceFirst_(Tail(v))

RECURSIVE Replace_(_)
\* version.replace(/_/g, '.')
Replace_(v) ==
    IF v = <<>> THEN <<>>
    ELSE <<IF Head(v) = "_" THEN "." ELSE Head(v)>> \o Replace_(Tail(v))

----------------------------------------------------------------------------
(* USER_AGENT_REGEX of the flat variant (regex.ts lines 21-66).            *)

\* /Windows Phone/i
FLAT_WINDOWS_PHONE == Lit(<<"Windows Phone">>)

\* /Windows Phone ([\d.]+)/i
FLAT_WINDOWS_PHONE_VERSION ==
    Cat(<<Lit(<<"Windows Phone", " ">>), Cap(1, Plus(Cls(DIGIT_DOT)))>>)

\* /iPad.*OS ([\d_]+)/i
FLAT_IPAD ==
    Cat(<<Lit(<<"iPad">>), Star(Dot), Lit(<<"OS", " ">>),
          Cap(1, Plus(Cls(DIGIT_US)))>>)

\* /OS ([\d_]+)/i
FLAT_IOS_VERSION == Cat(<<Lit(<<"OS", " ">>), Cap(1, Plus(Cls(DIGIT_US)))>>)

\* /iPhone.*OS ([\d_]+)/i
FLAT_IPHONE ==
    Cat(<<Lit(<<"iPhone">>), Star(Dot), Lit(<<"OS", " ">>),
          Cap(1, Plus(Cls(DIGIT_US)))>>)

\* /Android ([\d.]+)/i
FLAT_ANDROID == Cat(<<Lit(<<"Android", " ">>), Cap(1, Plus(Cls(DIGIT_DOT)))>>)

\* /Mobile|Mobi/i
FLAT_MOBILE_OR_MOBI == Alt(Lit(<<"Mobi", "le">>), Lit(<<"Mobi">>))

\* /Tablet|SM-T\d+|KF[A-Z0-9]{2,}/i
FLAT_TABLET_OR_SMT_OR_KF ==
    Alt(Lit(<<"Tablet">>),
        Alt(Cat(<<Lit(<<"SM-T">>), Plus(Cls(DIGIT))>>),
            Cat(<<Lit(<<"KF">>), Cls(ALNUM), Cls(ALNUM), Star(Cls(ALNUM))>>)))

\* /Windows NT ([\d.]+)/i
FLAT_WINDOWS_NT ==
    Cat(<<Lit(<<"Windows NT", " ">>), Cap(1, Plus(Cls(DIGIT_DOT)))>>)

\* /Macintosh.*Mac OS X ([\d_]+)/i
FLAT_MAC_OS_X ==
    Cat(<<Lit(<<"Macintosh">>), Star(Dot), Lit(<<"Mac OS X", " ">>),
          Cap(1, Plus(Cls(DIGIT_US)))>>)

\* /Linux/i
FLAT_LINUX == Lit(<<"Linux">>)

\* the Edge pattern without its "e" alternative, /Edg\/([\d.]+)/i
FLAT_EDGE_EdgOnly == Cat(<<Lit(<<"Edg", "/">>), Cap(1, Plus(Cls(DIGIT_DOT)))>>)

\* /Edg(?:e|)\/([\d.]+)/i
FLAT_EDGE ==
    Cat(<<Lit(<<"Edg">>), Alt(Lit(<<"e">>), Cat(<<>>)), Lit(<<"/">>),
          Cap(1, Plus(Cls(DIGIT_DOT)))>>)

\* /OPR\/([\d.]+)/i
FLAT_OPERA == Cat(<<Lit(<<"OPR", "/">>), Cap(1, Plus(Cls(DIGIT_DOT)))>>)

\* /Firefox\/([\d.]+)/i
FLAT_FIREFOX == Cat(<<Lit(<<"Firefox", "/">>), Cap(1, Plus(Cls(DIGIT_DOT)))>>)

\* /(?:Chrome|CriOS)\/([\d.]+)/i
FLAT_CHROME_CRIOS ==
    Cat(<<Alt(Lit(<<"Chrome">>), Lit(<<"Cri", "OS">>)), Lit(<<"/">>),
          Cap(1, Plus(Cls(DIGIT_DOT)))>>)

\* /Safari\/([\d.]+)/i
FLAT_SAFARI == Cat(<<Lit(<<"Safari", "/">>), Cap(1, Plus(Cls(DIGIT_DOT)))>>)

\* a Safari version pattern that captures the build after Safari/ instead
\* of the version after Version/, /Version\/[\d.]+.*Safari\/([\d.]+)/i
FLAT_SAFARI_VERSION_Build ==
    Cat(<<Lit(<<"Version", "/">>), Plus(Cls(DIGIT_DOT)), Star(Dot),
          Lit(<<"Safari", "/">>), Cap(1, Plus(Cls(DIGIT_DOT)))>>)

\* /Version\/([\d.]+).*Safari/i
FLAT_SAFARI_VERSION ==
    Cat(<<Lit(<<"Version", "/">>), Cap(1, Plus(Cls(DIGIT_DOT))), Star(Dot),
          Lit(<<"Safari">>)>>)

\* /MSIE ([\d.]+)|Trident\/.+?rv:([\d.]+)/i
FLAT_INTERNET_EXPLORER ==
    Alt(Cat(<<Lit(<<"MSIE", " ">>), Cap(1, Plus(Cls(DIGIT_DOT)))>>),
        Cat(<<Lit(<<"Trident", "/">>), LazyPlus(Dot), Lit(<<"rv:">>),
              Cap(2, Plus(Cls(DIGIT_DOT)))>>))

\* /Edg|OPR/i
FLAT_NOT_EDGE_OPERA == Alt(Lit(<<"Edg">>), Lit(<<"OPR">>))

\* /iPad|iPhone/i
FLAT_NOT_IPAD_IPHONE == Alt(Lit(<<"iPad">>), Lit(<<"iPhone">>))

\* /Android/i
FLAT_NOT_ANDROID == Lit(<<"Android">>)

\* /Chrome|CriOS|Edg|OPR|Firefox/i
FLAT_NOT_CHROME_CRIOS_EDGE_OPERA_FIREFOX ==
    Alt(Lit(<<"Chrome">>),
        Alt(Lit(<<"Cri", "OS">>),
            Alt(Lit(<<"Edg">>), Alt(Lit(<<"OPR">>), Lit(<<"Firefox">>)))))

----------------------------------------------------------------------------
(* USER_AGENT_REGEX of the rich variant (regex.ts lines 76-159).           *)

\* /Windows Phone (?:OS )?([\d.]+)/i
RICH_WINDOWS_PHONE ==
    Cat(<<Lit(<<"Windows Phone", " ">>), Opt(Lit(<<"OS", " ">>)),
          Cap(1, Plus(Cls(DIGIT_DOT)))>>)

\* /iPad.*(?:OS|CPU) ([\d_.]+)/i
RICH_IPAD ==
    Cat(<<Lit(<<"iPad">>), Star(Dot), Alt(Lit(<<"OS">>), Lit(<<"CPU">>)),
          Lit(<<" ">>), Cap(1, Plus(Cls(DIGIT_US_DOT)))>>)

\* /iPhone.*(?:OS|CPU) ([\d_.]+)/i
RICH_IPHONE ==
    Cat(<<Lit(<<"iPhone">>), Star(Dot), Alt(Lit(<<"OS">>), Lit(<<"CPU">>)),
          Lit(<<" ">>), Cap(1, Plus(Cls(DIGIT_US_DOT)))>>)

\* /iPod.*(?:OS|CPU) ([\d_.]+)/i
RICH_IPOD ==
    Cat(<<Lit(<<"iPod">>), Star(Dot), Alt(Lit(<<"OS">>), Lit(<<"CPU">>)),
          Lit(<<" ">>), Cap(1, Plus(Cls(DIGIT_US_DOT)))>>)

\* /(?:iPhone|iPad|iPod).*OS ([\d_]+)/i
RICH_IOS_VERSION ==
    Cat(<<Alt(Lit(<<"iPhone">>), Alt(Lit(<<"iPad">>), Lit(<<"iPod">>))),
          Star(Dot), Lit(<<"OS", " ">>), Cap(1, Plus(Cls(DIGIT_US)))>>)

\* /Android ([\d.]+)/i
RICH_ANDROID == Cat(<<Lit(<<"Android", " ">>), Cap(1, Plus(Cls(DIGIT_DOT)))>>)

\* /Mobi/i
RICH_MOBILE_INDICATOR == Lit(<<"Mobi">>)

\* /Tablet|iPad|SM-T\d+|KF[A-Z0-9]{2,}|Nexus 7|Nexus 10/i
RICH_TABLET_INDICATOR ==
    Alt(Lit(<<"Tablet">>),
        Alt(Lit(<<"iPad">>),
            Alt(Cat(<<Lit(<<"SM-T">>), Plus(Cls(DIGIT))>>),
                Alt(Cat(<<Lit(<<"KF">>), Cls(ALNUM), Cls(ALNUM),
                          Star(Cls(ALNUM))>>),
                    Alt(Lit(<<"Nexus", " ", "7">>),
                        Lit(<<"Nexus", " ", "1", "0">>))))))

\* /Windows NT ([\d.]+)/i
RICH_WINDOWS_NT ==
    Cat(<<Lit(<<"Windows NT", " ">>), Cap(1, Plus(Cls(DIGIT_DOT)))>>)

\* /Macintosh; Intel Mac OS X ([\d_.]+)/i
RICH_MAC_OS_X ==
    Cat(<<Lit(<<"Macintosh", ";", " ", "Intel", " ", "Mac OS X", " ">>),
          Cap(1, Plus(Cls(DIGIT_US_DOT)))>>)

\* /Linux/i
RICH_LINUX == Lit(<<"Linux">>)

\* /Edg[eA]?\/([\d.]+)/i
RICH_EDGE ==
    Cat(<<Lit(<<"Edg">>), Opt(Cls({"e", "A"})), Lit(<<"/">>),
          Cap(1, Plus(Cls(DIGIT_DOT)))>>)

\* the Opera pattern without its OPR alternative, /Opera\/([\d.]+)/i
RICH_OPERA_LegacyOnly ==
    Cat(<<Lit(<<"Opera", "/">>), Cap(1, Plus(Cls(DIGIT_DOT)))>>)

\* /(?:Opera|OPR)\/([\d.]+)/i
RICH_OPERA ==
    Cat(<<Alt(Lit(<<"Opera">>), Lit(<<"OPR">>)), Lit(<<"/">>),
          Cap(1, Plus(Cls(DIGIT_DOT)))>>)

\* /Firefox\/([\d.]+)/i
RICH_FIREFOX == Cat(<<Lit(<<"Firefox", "/">>), Cap(1, Plus(Cls(DIGIT_DOT)))>>)

\* /(?:Chrome|CriOS|Chromium)\/([\d.]+)/i
RICH_CHROME_CRIOS ==
    Cat(<<Alt(Lit(<<"Chrome">>), Alt(Lit(<<"Cri", "OS">>), Lit(<<"Chromium">>))),
          Lit(<<"/">>), Cap(1, Plus(Cls(DIGIT_DOT)))>>)

\* /Version\/([\d.]+).*Safari/i
RICH_SAFARI_VERSION ==
    Cat(<<Lit(<<"Version", "/">>), Cap(1, Plus(Cls(DIGIT_DOT))), Star(Dot),
          Lit(<<"Safari">>)>>)

\* /MSIE ([\d.]+)|Trident\/.+?rv:([\d.]+)/i
RICH_INTERNET_EXPLORER ==
    Alt(Cat(<<Lit(<<"MSIE", " ">>), Cap(1, Plus(Cls(DIGIT_DOT)))>>),
        Cat(<<Lit(<<"Trident", "/">>), LazyPlus(Dot), Lit(<<"rv:">>),
              Cap(2, Plus(Cls(DIGIT_DOT)))>>))

\* /AppleWebKit\/([\d.]+)/i
RICH_WEBKIT_ENGINE ==
    Cat(<<Lit(<<"AppleWebKit", "/">>), Cap(1, Plus(Cls(DIGIT_DOT)))>>)

\* /Gecko\/(\d{8}|\d+\.\d+)/i
RICH_GECKO_ENGINE ==
    Cat(<<Lit(<<"Gecko", "/">>),
          Cap(1, Alt(Cat(<<Cls(DIGIT), Cls(DIGIT), Cls(DIGIT), Cls(DIGIT),
                           Cls(DIGIT), Cls(DIGIT), Cls(DIGIT), Cls(DIGIT)>>),
                     Cat(<<Plus(Cls(DIGIT)), Lit(<<".">>),
                           Plus(Cls(DIGIT))>>)))>>)

\* /Trident\/([\d.]+)/i
RICH_TRIDENT_ENGINE ==
    Cat(<<Lit(<<"Trident", "/">>), Cap(1, Plus(Cls(DIGIT_DOT)))>>)

\* /Presto\/([\d.]+)/i
RICH_PRESTO_ENGINE ==
    Cat(<<Lit(<<"Presto", "/">>), Cap(1, Plus(Cls(DIGIT_DOT)))>>)

----------------------------------------------------------------------------
(* Names (src/src/constants/names.ts).                                     *)

DEVICE_TYPES ==
    [UNKNOWN |-> "unknown", WINDOWS_PHONE |-> "windows_phone", IOS |-> "ios",
     ANDROID |-> "android", PC |-> "pc"]

OS_NAMES ==
    [UNKNOWN |-> "unknown", WINDOWS_PHONE |-> "Windows Phone", IOS |-> "iOS",
     ANDROID |-> "Android", WINDOWS |-> "Windows", MACOS |-> "macOS",
     LINUX |-> "Linux"]

BROWSER_NAMES ==
    [UNKNOWN |-> "unknown", EDGE |-> "Edge", OPERA |-> "Opera",
     FIREFOX |-> "Firefox", CHROME |-> "Chrome", SAFARI |-> "Safari",
     INTERNET_EXPLORER |-> "Internet Explorer"]

----------------------------------------------------------------------------
(* The record before a call has allocated it.                              *)

NoRecord == [allocated |-> FALSE]

\* the defaults of the flat getDeviceType
FlatDefaults ==
    [type |-> "unknown", os |-> undefined, osVersion |-> UNDEFINED,
     isMobile |-> FALSE, isTablet |-> FALSE,
     browser |-> undefined, browserVersion |-> UNDEFINED]

\* the rich defaults with browser.version left undefined instead of 'unknown'
RichDefaults_BrowserVersionUnset(ua, p) ==
    [userAgentString |-> ua,
     device |-> [type |-> DEVICE_TYPES.UNKNOWN, name |-> "unknown",
                 model |-> "unknown", manufacturer |-> "unknown"],
     engine |-> [name |-> "unknown", version |-> UNKNOWN],
     os |-> [name |-> OS_NAMES.UNKNOWN, version |-> UNDEFINED,
             architecture |-> undefined],
     browser |-> [name |-> BROWSER_NAMES.UNKNOWN, version |-> UNDEFINED],
     platform |-> p,
     isBot |-> FALSE]

\* the defaults of the rich getDeviceType
RichDefaults(ua, p) ==
    [userAgentString |-> ua,
     device |-> [type |-> DEVICE_TYPES.UNKNOWN, name |-> "unknown",
                 model |-> "unknown", manufacturer |-> "unknown"],
     engine |-> [name |-> "unknown", version |-> UNKNOWN],
     os |-> [name |-> OS_NAMES.UNKNOWN, version |-> UNDEFINED,
             architecture |-> undefined],
     browser |-> [name |-> BROWSER_NAMES.UNKNOWN, version |-> UNKNOWN],
     platform |-> p,
     isBot |-> FALSE]

\* the first capture alone, ieMatch[1] without the || ieMatch[2]
OrElseFirstOnly(a, b) == a

\* JavaScript's a || b on two captures: a unless it is undefined or empty
OrElse(a, b) == IF a # UNDEFINED /\ a # <<>> THEN a ELSE b

\* JavaScript's m && m[1]: the match succeeded and the capture is non-empty
Truthy(m) == m.ok /\ m.c[1] # UNDEFINED /\ m.c[1] # <<>>

----------------------------------------------------------------------------
(* The flat variant: _detectOSAndDevice (regex.ts lines 191-280).          *)
(* pc names the rule about to be evaluated; a rule that fires returns from *)
(* the helper, so the facade continues with the first browser rule.        *)

\* the order in which the two helpers run on the record: the facade calls
\* _detectOSAndDevice and then _detectBrowser ("facade"); "swapped" is the
\* other order of the same two calls
Orders == {"facade", "swapped"}

\* where a call begins, and where it continues when a helper has returned
FirstHelper == IF order = "facade" THEN "WindowsPhone" ELSE "Edge"

AfterOSAndDevice == IF order = "facade" THEN "Edge" ELSE "done"

AfterBrowser == IF order = "facade" THEN "done" ELSE "WindowsPhone"

\* a rule of _detectOSAndDevice ran its block (the if body) and returned
OsReturn ==
    /\ osFired' = Append(osFired, pc)
    /\ pc' = AfterOSAndDevice
    /\ UNCHANGED <<variant, userAgent, platform, browserFired,
                   allDeviceResults, order>>

\* a rule of _detectOSAndDevice did not match: fall through to rule next
OsNext(next) ==
    /\ pc' = next
    /\ UNCHANGED <<variant, userAgent, platform, deviceInfo, osFired,
                   browserFired, allDeviceResults, order>>

\* the Edge block without its return statement: the Opera rule is evaluated
\* after the Edge block has run
BrowserReturn_EdgeFallsThrough ==
    /\ browserFired' = Append(browserFired, pc)
    /\ pc' = IF pc = "Edge" THEN "Opera" ELSE AfterBrowser
    /\ UNCHANGED <<variant, userAgent, platform, osFired, allDeviceResults,
                   order>>

\* userAgent.match(...) on the null reference: a TypeError leaves the call.
\* The first match of either helper is the iPhone rule's, after the test()
\* calls of the Windows Phone and iPad rules
Throw ==
    /\ pc' = "threw"
    /\ UNCHANGED <<variant, userAgent, platform, deviceInfo, osFired,
                   browserFired, allDeviceResults, order>>

\* a rule of _detectBrowser ran its block and returned: the facade returns
BrowserReturn ==
    /\ browserFired' = Append(browserFired, pc)
    /\ pc' = AfterBrowser
    /\ UNCHANGED <<variant, userAgent, platform, osFired, allDeviceResults,
                   order>>

\* a rule of _detectBrowser did not match: fall through to rule next
BrowserNext(next) ==
    /\ pc' = next
    /\ UNCHANGED <<variant, userAgent, platform, deviceInfo, osFired,
                   browserFired, allDeviceResults, order>>

\* the record is one object kept between the calls instead of the literal
\* of the facade: a call starts from what the last flat call left in it
FlatGetDeviceType_SharedRecord ==
    /\ variant = "flat"
    /\ pc = "call"
    /\ deviceInfo' = IF /\ allDeviceResults # <<>>
                        /\ allDeviceResults[Len(allDeviceResults)].variant
                               = "flat"
                     THEN allDeviceResults[Len(allDeviceResults)].deviceInfo
                     ELSE FlatDefaults
    /\ pc' = FirstHelper
    /\ UNCHANGED <<variant, userAgent, platform, osFired, browserFired,
                   allDeviceResults, order>>

FlatGetDeviceType ==
    /\ variant = "flat"
    /\ pc = "call"
    /\ deviceInfo' = FlatDefaults
    /\ pc' = FirstHelper
    /\ UNCHANGED <<variant, userAgent, platform, osFired, browserFired,
                   allDeviceResults, order>>

\* the Windows Phone block also naming the browser of the platform
FlatWindowsPhone_NamesBrowser ==
    /\ variant = "flat"
    /\ pc = "WindowsPhone"
    /\ IF Test(FLAT_WINDOWS_PHONE, userAgent)
       THEN LET wpMatch == Match(userAgent, FLAT_WINDOWS_PHONE_VERSION)
                d == [deviceInfo EXCEPT
                          !.type = DEVICE_TYPES.WINDOWS_PHONE,
                          !.os = OS_NAMES.WINDOWS_PHONE,
                          !.isMobile = TRUE,
                          !.browser = BROWSER_NAMES.INTERNET_EXPLORER]
            IN /\ deviceInfo' = IF wpMatch.ok
                                THEN [d EXCEPT !.osVersion = wpMatch.c[1]]
                                ELSE d
               /\ OsReturn
       ELSE OsNext("iPad")

FlatWindowsPhone ==
    /\ variant = "flat"
    /\ pc = "WindowsPhone"
    /\ IF Test(FLAT_WINDOWS_PHONE, userAgent)
       THEN LET wpMatch == Match(userAgent, FLAT_WINDOWS_PHONE_VERSION)
                d == [deviceInfo EXCEPT !.type = DEVICE_TYPES.WINDOWS_PHONE,
                                        !.os = OS_NAMES.WINDOWS_PHONE,
                                        !.isMobile = TRUE]
            IN /\ deviceInfo' = IF wpMatch.ok
                                THEN [d EXCEPT !.osVersion = wpMatch.c[1]]
                                ELSE d
               /\ OsReturn
       ELSE OsNext("iPad")

\* the iPad rule without the assignment of isMobile
FlatIPad_TabletNotMobile ==
    /\ variant = "flat"
    /\ pc = "iPad"
    /\ IF Test(FLAT_IPAD, userAgent)
       THEN LET versionMatch == Match(userAgent, FLAT_IOS_VERSION)
                d == [deviceInfo EXCEPT !.type = DEVICE_TYPES.IOS,
                                        !.os = OS_NAMES.IOS]
                e == IF versionMatch.ok
                     THEN [d EXCEPT !.osVersion = Replace_(versionMatch.c[1])]
                     ELSE d
            IN /\ deviceInfo' = [e EXCEPT !.isTablet = TRUE]
               /\ OsReturn
       ELSE OsNext("iPhone")

FlatIPad ==
    /\ variant = "flat"
    /\ pc = "iPad"
    /\ IF Test(FLAT_IPAD, userAgent)
       THEN LET versionMatch == Match(userAgent, FLAT_IOS_VERSION)
                d == [deviceInfo EXCEPT !.type = DEVICE_TYPES.IOS,
                                        !.os = OS_NAMES.IOS]
                e == IF versionMatch.ok
                     THEN [d EXCEPT !.osVersion = Replace_(versionMatch.c[1])]
                     ELSE d
            IN /\ deviceInfo' = [e EXCEPT !.isMobile = TRUE, !.isTablet = TRUE]
               /\ OsReturn
       ELSE OsNext("iPhone")

FlatIPhone ==
    /\ variant = "flat"
    /\ pc = "iPhone"
    /\ LET iPhoneMatch == Match(userAgent, FLAT_IPHONE)
       IN IF userAgent = null
          THEN Throw
          ELSE IF iPhoneMatch.ok
          THEN /\ deviceInfo' =
                    [deviceInfo EXCEPT !.type = DEVICE_TYPES.IOS,
                                       !.os = OS_NAMES.IOS,
                                       !.osVersion = Replace_(iPhoneMatch.c[1]),
                                       !.isMobile = TRUE,
                                       !.isTablet = FALSE]
               /\ OsReturn
          ELSE OsNext("Android")

\* the Android rule with && in place of || in the tablet test
FlatAndroid_TabletNeedsBoth ==
    /\ variant = "flat"
    /\ pc = "Android"
    /\ LET androidMatch == Match(userAgent, FLAT_ANDROID)
       IN IF androidMatch.ok /\ ~Test(FLAT_WINDOWS_PHONE, userAgent)
          THEN LET d == [deviceInfo EXCEPT !.type = DEVICE_TYPES.ANDROID,
                                           !.os = OS_NAMES.ANDROID,
                                           !.osVersion = androidMatch.c[1],
                                           !.isMobile = TRUE]
               IN /\ deviceInfo' =
                       IF /\ ~Test(FLAT_MOBILE_OR_MOBI, userAgent)
                          /\ Test(FLAT_TABLET_OR_SMT_OR_KF, userAgent)
                       THEN [d EXCEPT !.isTablet = TRUE]
                       ELSE d
                  /\ OsReturn
          ELSE OsNext("Windows")

FlatAndroid ==
    /\ variant = "flat"
    /\ pc = "Android"
    /\ LET androidMatch == Match(userAgent, FLAT_ANDROID)
       IN IF androidMatch.ok /\ ~Test(FLAT_WINDOWS_PHONE, userAgent)
          THEN LET d == [deviceInfo EXCEPT !.type = DEVICE_TYPES.ANDROID,
                                           !.os = OS_NAMES.ANDROID,
                                           !.osVersion = androidMatch.c[1],
                                           !.isMobile = TRUE]
               IN /\ deviceInfo' =
                       IF \/ ~Test(FLAT_MOBILE_OR_MOBI, userAgent)
                          \/ Test(FLAT_TABLET_OR_SMT_OR_KF, userAgent)
                       THEN [d EXCEPT !.isTablet = TRUE]
                       ELSE d
                  /\ OsReturn
          ELSE OsNext("Windows")

FlatWindows ==
    /\ variant = "flat"
    /\ pc = "Windows"
    /\ LET windowsMatch == Match(userAgent, FLAT_WINDOWS_NT)
       IN IF windowsMatch.ok
          THEN /\ deviceInfo' =
                    [deviceInfo EXCEPT !.type = DEVICE_TYPES.PC,
                                       !.os = OS_NAMES.WINDOWS,
                                       !.osVersion = windowsMatch.c[1]]
               /\ OsReturn
          ELSE OsNext("macOS")

FlatMacOS ==
    /\ variant = "flat"
    /\ pc = "macOS"
    /\ IF /\ Test(FLAT_MAC_OS_X, userAgent)
          /\ ~Test(FLAT_NOT_IPAD_IPHONE, userAgent)
       THEN LET macMatch == Match(userAgent, FLAT_MAC_OS_X)
                d == [deviceInfo EXCEPT !.type = DEVICE_TYPES.PC,
                                        !.os = OS_NAMES.MACOS]
            IN /\ deviceInfo' =
                    IF macMatch.ok
                    THEN [d EXCEPT !.osVersion = Replace_(macMatch.c[1])]
                    ELSE d
               /\ OsReturn
       ELSE OsNext("Linux")

FlatLinux ==
    /\ variant = "flat"
    /\ pc = "Linux"
    /\ IF /\ Test(FLAT_LINUX, userAgent)
          /\ ~Test(FLAT_NOT_ANDROID, userAgent)
       THEN /\ deviceInfo' = [deviceInfo EXCEPT !.type = DEVICE_TYPES.PC,
                                                !.os = OS_NAMES.LINUX]
            /\ OsReturn
       ELSE OsNext(AfterOSAndDevice)

----------------------------------------------------------------------------
(* The flat variant: _detectBrowser (regex.ts lines 291-344).              *)

FlatEdge ==
    /\ variant = "flat"
    /\ pc = "Edge"
    /\ LET edgeMatch == Match(userAgent, FLAT_EDGE)
       IN IF edgeMatch.ok
          THEN /\ deviceInfo' =
                    [deviceInfo EXCEPT !.browser = BROWSER_NAMES.EDGE,
                                       !.browserVersion = edgeMatch.c[1]]
               /\ BrowserReturn
          ELSE BrowserNext("Opera")

FlatOpera ==
    /\ variant = "flat"
    /\ pc = "Opera"
    /\ LET operaMatch == Match(userAgent, FLAT_OPERA)
       IN IF operaMatch.ok
          THEN /\ deviceInfo' =
                    [deviceInfo EXCEPT !.browser = BROWSER_NAMES.OPERA,
                                       !.browserVersion = operaMatch.c[1]]
               /\ BrowserReturn
          ELSE BrowserNext("Firefox")

\* the Firefox rule yielding to a Chrome or CriOS token
FlatFirefox_UnlessChrome ==
    /\ variant = "flat"
    /\ pc = "Firefox"
    /\ LET firefoxMatch == Match(userAgent, FLAT_FIREFOX)
       IN IF firefoxMatch.ok /\ ~Test(FLAT_CHROME_CRIOS, userAgent)
          THEN /\ deviceInfo' =
                    [deviceInfo EXCEPT !.browser = BROWSER_NAMES.FIREFOX,
                                       !.browserVersion = firefoxMatch.c[1]]
               /\ BrowserReturn
          ELSE BrowserNext("Chrome")

FlatFirefox ==
    /\ variant = "flat"
    /\ pc = "Firefox"
    /\ LET firefoxMatch == Match(userAgent, FLAT_FIREFOX)
       IN IF firefoxMatch.ok
          THEN /\ deviceInfo' =
                    [deviceInfo EXCEPT !.browser = BROWSER_NAMES.FIREFOX,
                                       !.browserVersion = firefoxMatch.c[1]]
               /\ BrowserReturn
          ELSE BrowserNext("Chrome")

FlatChrome ==
    /\ variant = "flat"
    /\ pc = "Chrome"
    /\ LET chromeMatch == Match(userAgent, FLAT_CHROME_CRIOS)
       IN IF chromeMatch.ok /\ ~Test(FLAT_NOT_EDGE_OPERA, userAgent)
          THEN /\ deviceInfo' =
                    [deviceInfo EXCEPT !.browser = BROWSER_NAMES.CHROME,
                                       !.browserVersion = chromeMatch.c[1]]
               /\ BrowserReturn
          ELSE BrowserNext("Safari")

FlatSafari ==
    /\ variant = "flat"
    /\ pc = "Safari"
    /\ IF /\ Test(FLAT_SAFARI, userAgent)
          /\ ~Test(FLAT_NOT_CHROME_CRIOS_EDGE_OPERA_FIREFOX, userAgent)
       THEN LET safariMatch == Match(userAgent, FLAT_SAFARI_VERSION)
            IN /\ deviceInfo' =
                    IF safariMatch.ok
                    THEN [deviceInfo EXCEPT
                              !.browser = BROWSER_NAMES.SAFARI,
                              !.browserVersion = safariMatch.c[1]]
                    ELSE deviceInfo
               /\ BrowserReturn
       ELSE BrowserNext("InternetExplorer")

\* the Internet Explorer block taking the device for a desktop: it puts
\* isMobile back to false
FlatInternetExplorer_ResetsMobile ==
    /\ variant = "flat"
    /\ pc = "InternetExplorer"
    /\ LET ieMatch == Match(userAgent, FLAT_INTERNET_EXPLORER)
       IN IF ieMatch.ok
          THEN /\ deviceInfo' =
                    [deviceInfo EXCEPT
                         !.browser = BROWSER_NAMES.INTERNET_EXPLORER,
                         !.browserVersion = OrElse(ieMatch.c[1], ieMatch.c[2]),
                         !.isMobile = FALSE]
               /\ BrowserReturn
          ELSE BrowserNext(AfterBrowser)

FlatInternetExplorer ==
    /\ variant = "flat"
    /\ pc = "InternetExplorer"
    /\ LET ieMatch == Match(userAgent, FLAT_INTERNET_EXPLORER)
       IN IF ieMatch.ok
          THEN /\ deviceInfo' =
                    [deviceInfo EXCEPT
                         !.browser = BROWSER_NAMES.INTERNET_EXPLORER,
                         !.browserVersion = OrElse(ieMatch.c[1], ieMatch.c[2])]
               /\ BrowserReturn
          ELSE BrowserNext(AfterBrowser)

----------------------------------------------------------------------------
(* The rich variant: _detectOSAndDevice (index.cts lines 30-141).          *)

RichGetDeviceType ==
    /\ variant = "rich"
    /\ pc = "call"
    /\ deviceInfo' = RichDefaults(userAgent, IF platform = undefined THEN ""
                                                 ELSE platform)
    /\ pc' = FirstHelper
    /\ UNCHANGED <<variant, userAgent, platform, osFired, browserFired,
                   allDeviceResults, order>>

\* the three iOS rules share their block but for the device name
\* the block of an iOS rule also filling in model and manufacturer
RichIOSBlock_WritesModel(name) ==
    LET versionMatch == Match(userAgent, RICH_IOS_VERSION)
        d == [deviceInfo EXCEPT !.device.type = DEVICE_TYPES.IOS,
                                !.os.name = OS_NAMES.IOS]
        e == IF Truthy(versionMatch)
             THEN [d EXCEPT !.os.version = Replace_(versionMatch.c[1])]
             ELSE d
    IN [e EXCEPT !.device.name = name, !.device.model = name,
                 !.device.manufacturer = "Apple"]

RichIOSBlock(name) ==
    LET versionMatch == Match(userAgent, RICH_IOS_VERSION)
        d == [deviceInfo EXCEPT !.device.type = DEVICE_TYPES.IOS,
                                !.os.name = OS_NAMES.IOS]
        e == IF Truthy(versionMatch)
             THEN [d EXCEPT !.os.version = Replace_(versionMatch.c[1])]
             ELSE d
    IN [e EXCEPT !.device.name = name]

RichWindowsPhone ==
    /\ variant = "rich"
    /\ pc = "WindowsPhone"
    /\ IF Test(RICH_WINDOWS_PHONE, userAgent)
       THEN LET wpMatch == Match(userAgent, RICH_WINDOWS_PHONE)
                d == [deviceInfo EXCEPT
                          !.device.type = DEVICE_TYPES.WINDOWS_PHONE,
                          !.os.name = OS_NAMES.WINDOWS_PHONE]
                e == IF Truthy(wpMatch)
                     THEN [d EXCEPT !.os.version = wpMatch.c[1]]
                     ELSE d
            IN /\ deviceInfo' = [e EXCEPT !.device.name = "Windows Phone"]
               /\ OsReturn
       ELSE OsNext("iPad")

RichIPad ==
    /\ variant = "rich"
    /\ pc = "iPad"
    /\ IF Test(RICH_IPAD, userAgent)
       THEN /\ deviceInfo' = RichIOSBlock("iPad")
            /\ OsReturn
       ELSE OsNext("iPhone")

RichIPhone ==
    /\ variant = "rich"
    /\ pc = "iPhone"
    /\ LET iPhoneMatch == Match(userAgent, RICH_IPHONE)
       IN IF userAgent = null
          THEN Throw
          ELSE IF iPhoneMatch.ok
          THEN /\ deviceInfo' = RichIOSBlock("iPhone")
               /\ OsReturn
          ELSE OsNext("iPod")

RichIPod ==
    /\ variant = "rich"
    /\ pc = "iPod"
    /\ LET iPodMatch == Match(userAgent, RICH_IPOD)
       IN IF iPodMatch.ok
          THEN /\ deviceInfo' = RichIOSBlock("iPod Touch")
               /\ OsReturn
          ELSE OsNext("Android")

RichAndroid ==
    /\ variant = "rich"
    /\ pc = "Android"
    /\ LET androidMatch == Match(userAgent, RICH_ANDROID)
       IN IF androidMatch.ok
          THEN LET d == [deviceInfo EXCEPT !.os.name = OS_NAMES.ANDROID,
                                           !.os.version = androidMatch.c[1]]
               IN /\ deviceInfo' =
                       IF Test(RICH_MOBILE_INDICATOR, userAgent)
                       THEN [d EXCEPT !.device.type = DEVICE_TYPES.ANDROID,
                                      !.device.name = "Android Phone"]
                       ELSE IF Test(RICH_TABLET_INDICATOR, userAgent)
                       THEN [d EXCEPT !.device.type = DEVICE_TYPES.ANDROID,
                                      !.device.name = "Android Tablet"]
                       ELSE [d EXCEPT !.device.type = DEVICE_TYPES.ANDROID,
                                      !.device.name = "Android Device"]
                  /\ OsReturn
          ELSE OsNext("Windows")

\* the Windows rule also firing on a platform hint of Win32
RichWindows_PlatformHint ==
    /\ variant = "rich"
    /\ pc = "Windows"
    /\ LET windowsMatch == Match(userAgent, RICH_WINDOWS_NT)
       IN IF windowsMatch.ok \/ platform = "Win32"
          THEN /\ deviceInfo' =
                    [deviceInfo EXCEPT !.device.type = DEVICE_TYPES.PC,
                                       !.os.name = OS_NAMES.WINDOWS,
                                       !.os.version =
                                           IF windowsMatch.ok
                                           THEN windowsMatch.c[1]
                                           ELSE UNDEFINED,
                                       !.device.name = "Windows PC"]
               /\ OsReturn
          ELSE OsNext("macOS")

RichWindows ==
    /\ variant = "rich"
    /\ pc = "Windows"
    /\ LET windowsMatch == Match(userAgent, RICH_WINDOWS_NT)
       IN IF windowsMatch.ok
          THEN /\ deviceInfo' =
                    [deviceInfo EXCEPT !.device.type = DEVICE_TYPES.PC,
                                       !.os.name = OS_NAMES.WINDOWS,
                                       !.os.version = windowsMatch.c[1],
                                       !.device.name = "Windows PC"]
               /\ OsReturn
          ELSE OsNext("macOS")

RichMacOS ==
    /\ variant = "rich"
    /\ pc = "macOS"
    /\ IF Test(RICH_MAC_OS_X, userAgent)
       THEN LET macMatch == Match(userAgent, RICH_MAC_OS_X)
                d == [deviceInfo EXCEPT !.device.type = DEVICE_TYPES.PC,
                                        !.os.name = OS_NAMES.MACOS]
                e == IF Truthy(macMatch)
                     THEN [d EXCEPT !.os.version = Replace_(macMatch.c[1])]
                     ELSE d
            IN /\ deviceInfo' = [e EXCEPT !.device.name = "macOS PC"]
               /\ OsReturn
       ELSE OsNext("Linux")

\* the Linux block without the assignment of device.type
RichLinux_TypeNotSet ==
    /\ variant = "rich"
    /\ pc = "Linux"
    /\ IF Test(RICH_LINUX, userAgent)
       THEN /\ deviceInfo' = [deviceInfo EXCEPT !.os.name = OS_NAMES.LINUX,
                                                !.device.name = "Linux PC"]
            /\ OsReturn
       ELSE OsNext(AfterOSAndDevice)

RichLinux ==
    /\ variant = "rich"
    /\ pc = "Linux"
    /\ IF Test(RICH_LINUX, userAgent)
       THEN /\ deviceInfo' = [deviceInfo EXCEPT !.device.type = DEVICE_TYPES.PC,
                                                !.os.name = OS_NAMES.LINUX,
                                                !.device.name = "Linux PC"]
            /\ OsReturn
       ELSE OsNext(AfterOSAndDevice)

----------------------------------------------------------------------------
(* The rich variant: _detectBrowser (index.cts lines 152-246).             *)

\* if (m && m[1]) { engine.name = name; engine.version = m[1]; }
WithEngine(d, engineRegex, name) ==
    LET m == Match(userAgent, engineRegex)
    IN IF Truthy(m)
       THEN [d EXCEPT !.engine.name = name, !.engine.version = m.c[1]]
       ELSE d

RichEdge ==
    /\ variant = "rich"
    /\ pc = "Edge"
    /\ LET edgeMatch == Match(userAgent, RICH_EDGE)
       IN IF edgeMatch.ok
          THEN /\ deviceInfo' =
                    WithEngine([deviceInfo EXCEPT
                                    !.browser.name = BROWSER_NAMES.EDGE,
                                    !.browser.version = edgeMatch.c[1]],
                               RICH_WEBKIT_ENGINE, "Blink")
               /\ BrowserReturn
          ELSE BrowserNext("Opera")

\* the Opera block reading the Presto marker before the AppleWebKit marker,
\* so that Blink is written last
RichOpera_BlinkLast ==
    /\ variant = "rich"
    /\ pc = "Opera"
    /\ LET operaMatch == Match(userAgent, RICH_OPERA)
       IN IF operaMatch.ok
          THEN /\ deviceInfo' =
                    WithEngine(
                        WithEngine([deviceInfo EXCEPT
                                        !.browser.name = BROWSER_NAMES.OPERA,
                                        !.browser.version = operaMatch.c[1]],
                                   RICH_PRESTO_ENGINE, "Presto"),
                        RICH_WEBKIT_ENGINE, "Blink")
               /\ BrowserReturn
          ELSE BrowserNext("Firefox")

RichOpera ==
    /\ variant = "rich"
    /\ pc = "Opera"
    /\ LET operaMatch == Match(userAgent, RICH_OPERA)
       IN IF operaMatch.ok
          THEN /\ deviceInfo' =
                    WithEngine(
                        WithEngine([deviceInfo EXCEPT
                                        !.browser.name = BROWSER_NAMES.OPERA,
                                        !.browser.version = operaMatch.c[1]],
                                   RICH_WEBKIT_ENGINE, "Blink"),
                        RICH_PRESTO_ENGINE, "Presto")
               /\ BrowserReturn
          ELSE BrowserNext("Firefox")

RichFirefox ==
    /\ variant = "rich"
    /\ pc = "Firefox"
    /\ LET firefoxMatch == Match(userAgent, RICH_FIREFOX)
       IN IF firefoxMatch.ok
          THEN /\ deviceInfo' =
                    WithEngine([deviceInfo EXCEPT
                                    !.browser.name = BROWSER_NAMES.FIREFOX,
                                    !.browser.version = firefoxMatch.c[1]],
                               RICH_GECKO_ENGINE, "Gecko")
               /\ BrowserReturn
          ELSE BrowserNext("Chrome")

RichChrome ==
    /\ variant = "rich"
    /\ pc = "Chrome"
    /\ LET chromeMatch == Match(userAgent, RICH_CHROME_CRIOS)
       IN IF chromeMatch.ok
          THEN /\ deviceInfo' =
                    WithEngine([deviceInfo EXCEPT
                                    !.browser.name = BROWSER_NAMES.CHROME,
                                    !.browser.version = chromeMatch.c[1]],
                               RICH_WEBKIT_ENGINE, "Blink")
               /\ BrowserReturn
          ELSE BrowserNext("Safari")

RichSafari ==
    /\ variant = "rich"
    /\ pc = "Safari"
    /\ LET safariVersionMatch == Match(userAgent, RICH_SAFARI_VERSION)
       IN IF safariVersionMatch.ok
          THEN /\ deviceInfo' =
                    WithEngine([deviceInfo EXCEPT
                                    !.browser.name = BROWSER_NAMES.SAFARI,
                                    !.browser.version = safariVersionMatch.c[1]],
                               RICH_WEBKIT_ENGINE, "WebKit")
               /\ BrowserReturn
          ELSE BrowserNext("InternetExplorer")

RichInternetExplorer ==
    /\ variant = "rich"
    /\ pc = "InternetExplorer"
    /\ LET ieMatch == Match(userAgent, RICH_INTERNET_EXPLORER)
       IN IF ieMatch.ok
          THEN /\ deviceInfo' =
                    WithEngine([deviceInfo EXCEPT
                                    !.browser.name =
                                        BROWSER_NAMES.INTERNET_EXPLORER,
                                    !.browser.version =
                                        OrElse(ieMatch.c[1], ieMatch.c[2])],
                               RICH_TRIDENT_ENGINE, "Trident")
               /\ BrowserReturn
          ELSE BrowserNext(AfterBrowser)

----------------------------------------------------------------------------
(* Inputs.  A user agent is a list of tokens separated by single spaces.   *)

\* the user-agent strings of the test suite (src/__tests__/index.test.ts),
\* with the text no pattern reads cut down to its separators and versions
\* shortened to their first components
TestUserAgents ==
    { \* Android phone
      <<"Linux", ";", " ", "Android", " ", "1", "0", ";", " ", "AppleWebKit",
        "/", "5", "3", "7", ".", "3", "6", " ", "Gecko", " ", "Chrome", "/",
        "1", "0", "0", ".", "0", " ", "Mobi", "le", " ", "Safari", "/", "5",
        "3", "7", ".", "3", "6">>,
      \* Android tablet
      <<"Linux", ";", " ", "Android", " ", "1", "1", ";", " ", "SM-T", "5",
        "1", "0", " ", "AppleWebKit", "/", "5", "3", "7", " ", "Gecko", " ",
        "Chrome", "/", "9", "9", ".", "0", " ", "Safari", "/", "5", "3", "7">>,
      \* Android tablet with the Tablet keyword
      <<"Linux", ";", " ", "Android", " ", "1", "2", ";", " ", "AppleWebKit",
        "/", "5", "3", "7", " ", "Gecko", " ", "Chrome", "/", "1", "0", "0",
        " ", "Safari", "/", "5", "3", "7", " ", "Tablet">>,
      \* iPhone
      <<"iPhone", ";", " ", "CPU", " ", "iPhone", " ", "OS", " ", "1", "7",
        "_", "0", "_", "3", " ", "Mac OS X", " ", "AppleWebKit", "/", "6",
        "0", "5", " ", "Gecko", " ", "Version", "/", "1", "7", ".", "0", ".",
        "3", " ", "Mobi", "le", "/", "1", "5", "e", " ", "Safari", "/", "6",
        "0", "4", ".", "1">>,
      \* iPad with Chrome
      <<"iPad", ";", " ", "CPU", " ", "OS", " ", "1", "6", "_", "6", " ",
        "Mac OS X", " ", "AppleWebKit", "/", "6", "0", "5", " ", "Gecko", " ",
        "Cri", "OS", "/", "1", "0", "0", ".", "0", " ", "Mobi", "le", "/",
        "1", "5", "e", " ", "Safari", "/", "6", "0", "4", ".", "1">>,
      \* Windows Phone
      <<"Windows Phone", " ", "1", "0", ".", "0", ";", " ", "Android", " ",
        "4", ".", "2", ".", "1", ";", " ", "AppleWebKit", "/", "5", "3", "7",
        " ", "Gecko", " ", "Chrome", "/", "4", "6", ".", "0", " ", "Mobi",
        "le", " ", "Safari", "/", "5", "3", "7", " ", "Edg", "e", "/", "1",
        "4", ".", "1", "4">>,
      \* Windows PC with Chrome
      <<"Windows NT", " ", "1", "0", ".", "0", ";", " ", "AppleWebKit", "/",
        "5", "3", "7", " ", "Gecko", " ", "Chrome", "/", "1", "0", "0", ".",
        "0", " ", "Safari", "/", "5", "3", "7">>,
      \* macOS PC with Chrome
      <<"Macintosh", ";", " ", "Intel", " ", "Mac OS X", " ", "1", "0", "_",
        "1", "5", "_", "7", " ", "AppleWebKit", "/", "5", "3", "7", " ",
        "Gecko", " ", "Chrome", "/", "1", "0", "0", ".", "0", " ", "Safari",
        "/", "5", "3", "7">>,
      \* Linux PC with Firefox, Chrome and Safari tokens
      <<"Linux", " ", "AppleWebKit", "/", "5", "3", "7", " ", "Gecko", " ",
        "Firefox", "/", "9", "9", ".", "0", " ", "Chrome", "/", "1", "0", "0",
        ".", "0", " ", "Safari", "/", "5", "3", "7">>,
      \* Firefox on macOS 10.15
      <<"Macintosh", ";", " ", "Intel", " ", "Mac OS X", " ", "1", "0", ".",
        "1", "5", ";", " ", "rv:", "9", "4", ".", "0", " ", "Gecko", "/", "2",
        "0", "1", "0", "0", "1", "0", "1", " ", "Firefox", "/", "9", "4", ".",
        "0">>,
      \* Safari on macOS
      <<"Macintosh", ";", " ", "Intel", " ", "Mac OS X", " ", "1", "0", "_",
        "1", "5", "_", "7", " ", "AppleWebKit", "/", "6", "0", "5", " ",
        "Gecko", " ", "Version", "/", "1", "5", ".", "1", " ", "Safari", "/",
        "6", "0", "5", ".", "1">>,
      \* Edge
      <<"Windows NT", " ", "1", "0", ".", "0", ";", " ", "AppleWebKit", "/",
        "5", "3", "7", " ", "Gecko", " ", "Chrome", "/", "9", "5", ".", "0",
        " ", "Safari", "/", "5", "3", "7", " ", "Edg", "/", "9", "5", ".",
        "1">>,
      \* Opera
      <<"Windows NT", " ", "1", "0", ".", "0", ";", " ", "AppleWebKit", "/",
        "5", "3", "7", " ", "Gecko", " ", "Chrome", "/", "9", "5", ".", "0",
        " ", "Safari", "/", "5", "3", "7", " ", "OPR", "/", "8", "1", ".",
        "0">>,
      \* Internet Explorer 11
      <<"Windows NT", " ", "6", ".", "3", ";", " ", "Trident", "/", "7", ".",
        "0", ";", " ", "rv:", "1", "1", ".", "0", " ", "Gecko">>,
      \* Internet Explorer 8
      <<"MSIE", " ", "8", ".", "0", ";", " ", "Windows NT", " ", "6", ".",
        "0", ";", " ", "Trident", "/", "4", ".", "0">>,
      \* unrecognized
      <<";", " ", ";">>,
      \* empty
      <<>> }

RECURSIVE Join(_)
\* the tokens of q, separated by single spaces
Join(q) ==
    IF q = <<>> THEN <<>>
    ELSE IF Len(q) = 1 THEN q[1]
    ELSE q[1] \o <<" ">> \o Join(Tail(q))

\* every string of at most n tokens of V
Strings(V, n) == {Join(q) : q \in UNION {[1..k -> V] : k \in 0..n}}

\* the most tokens in a generated string
MaxTokens == 3

\* browser tokens
BrowserTokens ==
    { <<"Edg", "/", "1">>,
      <<"Edg", "e", "/", "2">>,
      <<"Edg", "A", "/", "3">>,
      <<"OPR", "/", "4">>,
      <<"Opera", "/", "5">>,
      <<"Firefox", "/", "6">>,
      <<"Chrome", "/", "7">>,
      <<"Cri", "OS", "/", "8">>,
      <<"Safari", "/", "9">>,
      <<"Version", "/", "1", ".", "5">>,
      <<"MSIE", " ", "1", "0">>,
      <<"Trident", "/", "7", ";", " ", "rv:", "1", "1">>,
      <<"Trident", "/", "4">> }

\* operating-system and device tokens
OsTokens ==
    { <<"Windows Phone">>,
      <<"Windows Phone", " ", "8", ".", "1">>,
      <<"Windows Phone", " ", "OS", " ", "7", ".", "5">>,
      <<"iPad">>,
      <<"iPhone">>,
      <<"iPod">>,
      <<"OS", " ", "1", "7", "_", "0">>,
      <<"CPU", " ", "1", "_", "6">>,
      <<"Android">>,
      <<"Android", " ", "1", "1">>,
      <<"Windows NT", " ", "6", ".", "3">>,
      <<"Macintosh", ";", " ", "Intel", " ", "Mac OS X", " ", "1", "0", "_",
        "1", "5">>,
      <<"Mac OS X">>,
      <<"Linux">> }

\* Android tokens with the indicators of phones and tablets
AndroidTokens ==
    { <<"Android", " ", "1", "1">>,
      <<"Android">>,
      <<"Mobi", "le">>,
      <<"Mobi">>,
      <<"Tablet">>,
      <<"SM-T", "5">>,
      <<"SM-T">>,
      <<"KF", "A", "T">>,
      <<"KF", "A">>,
      <<"Nexus", " ", "7">>,
      <<"Windows Phone">>,
      <<"Linux">> }

\* the parts of Macintosh platform strings: the word Macintosh with and
\* without processor text, Mac OS X tokens with underscores and with dots
MacTokens ==
    { <<"Macintosh", ";", " ", "Intel">>,
      <<"Macintosh", ";", " ", "U", ";", " ", "PPC">>,
      <<"Macintosh">>,
      <<"Mac OS X", " ", "1", "0", "_", "1", "5", "_", "7">>,
      <<"Mac OS X", " ", "1", "0", ".", "1", "5">>,
      <<"iPhone">>,
      <<"Linux">> }

\* browser tokens and the engine markers the rich browser rules read
EngineTokens ==
    { <<"Edg", "/", "1">>,
      <<"OPR", "/", "4">>,
      <<"Firefox", "/", "6">>,
      <<"Chrome", "/", "7">>,
      <<"Version", "/", "1", ".", "5", " ", "Safari", "/", "9">>,
      <<"MSIE", " ", "1", "0">>,
      <<"Trident", "/", "7", ";", " ", "rv:", "1", "1">>,
      <<"AppleWebKit", "/", "5", "3", "7", ".", "3">>,
      <<"Gecko", "/", "2", "0", "1", "0", "0", "1", "0", "1">>,
      <<"Gecko", "/", "1", ".", "9">>,
      <<"Gecko", "/", "5">>,
      <<"Presto", "/", "2", ".", "1">> }

\* tokens of both chains for the calls made in either helper order
OrderTokens ==
    { <<"Windows Phone", " ", "8", ".", "1">>,
      <<"iPhone", " ", "OS", " ", "1", "7", "_", "0">>,
      <<"Android", " ", "1", "1">>,
      <<"Linux">>,
      <<"Edg", "/", "1">>,
      <<"Firefox", "/", "6">>,
      <<"Cri", "OS", "/", "8">>,
      <<"Version", "/", "1", ".", "5", " ", "Safari", "/", "9">>,
      <<"AppleWebKit", "/", "5", "3", "7", ".", "3">> }

\* the most tokens in a string that mixes browser and OS tokens
MaxMixedTokens == 2

UserAgents ==
    TestUserAgents \cup Strings(BrowserTokens \cup OsTokens, MaxMixedTokens)

BrowserUserAgents == TestUserAgents \cup Strings(BrowserTokens, MaxTokens)

OsUserAgents == TestUserAgents \cup Strings(OsTokens, MaxTokens)

AndroidUserAgents == TestUserAgents \cup Strings(AndroidTokens, MaxTokens)

MacUserAgents == TestUserAgents \cup Strings(MacTokens, MaxTokens)

EngineUserAgents == TestUserAgents \cup Strings(EngineTokens, MaxTokens)

OrderUserAgents == TestUserAgents \cup Strings(OrderTokens, MaxMixedTokens)

\* the strings of the test suite and the null reference
NullUserAgents == TestUserAgents \cup {null}

Variants == {"flat", "rich"}

Platforms == {"", "Win32"}

\* the number of calls a caller makes one after the other
MaxCalls == 2

\* the strings a caller passes when it calls repeatedly
CallUserAgents ==
    { <<>>,
      <<"Linux">>,
      <<"Firefox", "/", "9">>,
      <<"Linux", " ", "Chrome", "/", "7", " ", "Safari", "/", "9">> }

\* the argument lists of a call: the flat function takes the string alone,
\* the rich one a string and an optional platform hint (undefined when the
\* caller omits it)
CallArguments ==
    [variant : {"flat"}, userAgent : CallUserAgents, platform : {undefined}]
        \cup [variant : {"rich"}, userAgent : CallUserAgents,
              platform : Platforms \cup {undefined}]

----------------------------------------------------------------------------
(* Specifications.                                                         *)

InitWith(S, P) ==
    /\ variant \in Variants
    /\ userAgent \in S
    /\ platform \in P
    /\ pc = "call"
    /\ deviceInfo = NoRecord
    /\ osFired = <<>>
    /\ browserFired = <<>>
    /\ allDeviceResults = <<>>
    /\ order = "facade"

Init == InitWith(UserAgents, Platforms)

InitBrowser == InitWith(BrowserUserAgents, {""})

InitOs == InitWith(OsUserAgents, {""})

InitAndroid == InitWith(AndroidUserAgents, {""})

InitNull == InitWith(NullUserAgents, {""})

InitMac == InitWith(MacUserAgents, {""})

InitEngine == InitWith(EngineUserAgents, {""})

InitOrder == InitWith(OrderUserAgents, {""})

InitCalls ==
    /\ \E a \in CallArguments :
          /\ variant = a.variant
          /\ userAgent = a.userAgent
          /\ platform = a.platform
    /\ pc = "call"
    /\ deviceInfo = NoRecord
    /\ osFired = <<>>
    /\ browserFired = <<>>
    /\ allDeviceResults = <<>>
    /\ order = "facade"

Next ==
    \/ FlatGetDeviceType
    \/ FlatWindowsPhone
    \/ FlatIPad
    \/ FlatIPhone
    \/ FlatAndroid
    \/ FlatWindows
    \/ FlatMacOS
    \/ FlatLinux
    \/ FlatEdge
    \/ FlatOpera
    \/ FlatFirefox
    \/ FlatChrome
    \/ FlatSafari
    \/ FlatInternetExplorer
    \/ RichGetDeviceType
    \/ RichWindowsPhone
    \/ RichIPad
    \/ RichIPhone
    \/ RichIPod
    \/ RichAndroid
    \/ RichWindows
    \/ RichMacOS
    \/ RichLinux
    \/ RichEdge
    \/ RichOpera
    \/ RichFirefox
    \/ RichChrome
    \/ RichSafari
    \/ RichInternetExplorer

\* the caller keeps the record of the call that returned and calls again:
\* allDeviceResults.push(deviceInfo) and the next getDeviceType(...). The
\* arguments of the call are kept next to its record
NextCall ==
    /\ pc = "done"
    /\ Len(allDeviceResults) + 1 < MaxCalls
    /\ allDeviceResults' =
           Append(allDeviceResults,
                  [variant |-> variant, userAgent |-> userAgent,
                   platform |-> platform, order |-> order,
                   deviceInfo |-> deviceInfo])
    /\ \E a \in CallArguments :
          /\ variant' = a.variant
          /\ userAgent' = a.userAgent
          /\ platform' = a.platform
    /\ pc' = "call"
    /\ deviceInfo' = NoRecord
    /\ osFired' = <<>>
    /\ browserFired' = <<>>
    /\ UNCHANGED order

NextCalls == Next \/ NextCall

\* the same arguments classified once more, with the two helper calls in
\* the other order
NextCallOtherOrder ==
    /\ pc = "done"
    /\ Len(allDeviceResults) + 1 < MaxCalls
    /\ allDeviceResults' =
           Append(allDeviceResults,
                  [variant |-> variant, userAgent |-> userAgent,
                   platform |-> platform, order |-> order,
                   deviceInfo |-> deviceInfo])
    /\ order' = IF order = "facade" THEN "swapped" ELSE "facade"
    /\ pc' = "call"
    /\ deviceInfo' = NoRecord
    /\ osFired' = <<>>
    /\ browserFired' = <<>>
    /\ UNCHANGED <<variant, userAgent, platform>>

NextOrder == Next \/ NextCallOtherOrder

Spec == Init /\ [][Next]_vars

SpecBrowser == InitBrowser /\ [][Next]_vars

SpecOs == InitOs /\ [][Next]_vars

SpecAndroid == InitAndroid /\ [][Next]_vars

SpecNull == InitNull /\ [][Next]_vars

SpecMac == InitMac /\ [][Next]_vars

SpecEngine == InitEngine /\ [][Next]_vars

SpecOrder == InitOrder /\ [][NextOrder]_vars

SpecCalls == InitCalls /\ [][NextCalls]_vars

----------------------------------------------------------------------------
(* Reading a returned record and an input string, for the properties.      *)
(* These definitions look at the atoms of the string directly; none of     *)
(* them uses the matcher.                                                  *)

Returned == pc = "done"

BrowserName ==
    IF variant = "flat" THEN deviceInfo.browser ELSE deviceInfo.browser.name

BrowserVersion ==
    IF variant = "flat" THEN deviceInfo.browserVersion
    ELSE deviceInfo.browser.version

DeviceType ==
    IF variant = "flat" THEN deviceInfo.type ELSE deviceInfo.device.type

OsName == IF variant = "flat" THEN deviceInfo.os ELSE deviceInfo.os.name

OsVersion ==
    IF variant = "flat" THEN deviceInfo.osVersion ELSE deviceInfo.os.version

\* the word w (a sequence of atoms) stands at position i of ua
WordAt(ua, w, i) ==
    /\ i + Len(w) - 1 <= Len(ua)
    /\ SubSeq(ua, i, i + Len(w) - 1) = w

\* some word of W occurs in ua
HasWord(ua, W) == \E w \in W : \E i \in 1..Len(ua) : WordAt(ua, w, i)

\* the longest run of atoms of C that starts at position j of ua
RunFrom(ua, j, C) ==
    LET last == CHOOSE e \in (j - 1)..Len(ua) :
                    /\ \A x \in j..e : ua[x] \in C
                    /\ e < Len(ua) => ua[e + 1] \notin C
    IN SubSeq(ua, j, last)

\* the positions of the tokens of ua: a marker of W followed by a version of
\* digits and dots
TokenPositions(ua, W) ==
    {i \in 1..Len(ua) : \E w \in W : /\ WordAt(ua, w, i)
                                     /\ i + Len(w) <= Len(ua)
                                     /\ ua[i + Len(w)] \in DIGIT_DOT}

HasToken(ua, W) == TokenPositions(ua, W) # {}

\* the version of the leftmost token of ua with a marker of W
FirstVersion(ua, W) ==
    LET i == Min(TokenPositions(ua, W))
        w == CHOOSE x \in W : WordAt(ua, x, i)
    IN RunFrom(ua, i + Len(w), DIGIT_DOT)

EdgMarker == {<<"Edg", "/">>}

EdgeMarker == {<<"Edg", "e", "/">>}

EdgAMarker == {<<"Edg", "A", "/">>}

OPRMarker == {<<"OPR", "/">>}

OperaMarker == {<<"Opera", "/">>}

FirefoxMarker == {<<"Firefox", "/">>}

ChromeMarker == {<<"Chrome", "/">>}

CriOSMarker == {<<"Cri", "OS", "/">>}

SafariMarker == {<<"Safari", "/">>}

VersionMarker == {<<"Version", "/">>}

MSIEMarker == {<<"MSIE", " ">>}

\* the words by which the Edge, Opera, Firefox and Chrome rules of either
\* variant know their browsers
ChromiumFamilyWords ==
    {<<"Edg">>, <<"OPR">>, <<"Opera">>, <<"Firefox">>, <<"Chrome">>,
     <<"Cri", "OS">>, <<"Chromium">>}

----------------------------------------------------------------------------
(* C1.  In both variants, a string that contains an Edge token, Edg/<v> or *)
(* Edge/<v>, is reported as browser Edge, whatever Chrome/, CriOS/,        *)
(* Safari/, Version/, OPR/ or Firefox/ tokens it also contains; the        *)
(* reported version is the <v> of the leftmost such Edge token.  (The      *)
(* version clause is stated for strings whose Edge tokens are of these two *)
(* spellings; the EdgA/ spelling is the subject of C19.)                   *)

C1_EdgeWins ==
    (Returned /\ HasToken(userAgent, EdgMarker \cup EdgeMarker)) =>
        /\ BrowserName = "Edge"
        /\ ~HasToken(userAgent, EdgAMarker) =>
               BrowserVersion = FirstVersion(userAgent, EdgMarker \cup EdgeMarker)

\* an Edge/ token after Chrome/ and Safari/ tokens, reported as Edge
C1_Witness ==
    /\ Returned
    /\ variant = "rich"
    /\ HasToken(userAgent, EdgeMarker)
    /\ HasToken(userAgent, ChromeMarker)
    /\ HasToken(userAgent, SafariMarker)
    /\ Min(TokenPositions(userAgent, ChromeMarker))
           < Min(TokenPositions(userAgent, EdgeMarker))
    /\ BrowserName = "Edge"
    /\ BrowserVersion = <<"2">>

----------------------------------------------------------------------------
(* C2.  In both variants, a string that contains an OPR/<v> token and no   *)
(* Edge token is reported as browser Opera, never Chrome or Safari, even   *)
(* when Chrome/ and Safari/ tokens are present; the reported version is    *)
(* the <v> of the leftmost OPR/ token.  (The version clause is stated for  *)
(* strings without the legacy Opera/ token, the subject of C20.)           *)

C2_OperaBeforeChromeAndSafari ==
    (/\ Returned
     /\ HasToken(userAgent, OPRMarker)
     /\ ~HasWord(userAgent, {<<"Edg">>})) =>
        /\ BrowserName = "Opera"
        /\ ~HasToken(userAgent, OperaMarker) =>
               BrowserVersion = FirstVersion(userAgent, OPRMarker)

\* an OPR/ token after Chrome/ and Safari/ tokens, reported as Opera
C2_Witness ==
    /\ Returned
    /\ variant = "flat"
    /\ HasToken(userAgent, OPRMarker)
    /\ HasToken(userAgent, ChromeMarker)
    /\ HasToken(userAgent, SafariMarker)
    /\ Min(TokenPositions(userAgent, ChromeMarker))
           < Min(TokenPositions(userAgent, OPRMarker))
    /\ BrowserName = "Opera"
    /\ BrowserVersion = <<"4">>

----------------------------------------------------------------------------
(* C3.  In both variants, a string in which a Version/<v> token is         *)
(* followed later by a Safari/<b> token, and in which no Chrome, CriOS,    *)
(* Edge, Opera or Firefox word occurs, is reported as browser Safari with  *)
(* the version <v> of the leftmost Version/ token, never the build <b>.    *)

VersionThenSafari(ua) ==
    \E i \in TokenPositions(ua, VersionMarker) :
        \E j \in TokenPositions(ua, SafariMarker) : i < j

C3_SafariReportsVersionToken ==
    (/\ Returned
     /\ VersionThenSafari(userAgent)
     /\ ~HasWord(userAgent, ChromiumFamilyWords)) =>
        /\ BrowserName = "Safari"
        /\ BrowserVersion = FirstVersion(userAgent, VersionMarker)

\* Safari reported with a version that differs from the Safari/ build
C3_Witness ==
    /\ Returned
    /\ variant = "flat"
    /\ VersionThenSafari(userAgent)
    /\ ~HasWord(userAgent, ChromiumFamilyWords)
    /\ BrowserName = "Safari"
    /\ BrowserVersion = <<"1", ".", "5">>
    /\ FirstVersion(userAgent, SafariMarker) = <<"9">>

----------------------------------------------------------------------------
(* C4.  Internet Explorer.  The strings considered contain none of the     *)
(* words of the Edge, Opera, Firefox, Chrome and Safari rules.             *)

\* the positions where the second alternative of the pattern can match: a
\* Trident/ followed, at least one atom later, by rv: and a version
RvPositions(ua) ==
    {j \in 1..Len(ua) : /\ WordAt(ua, <<"rv:">>, j)
                        /\ j + 1 <= Len(ua)
                        /\ ua[j + 1] \in DIGIT_DOT}

TridentPositions(ua) ==
    {i \in 1..Len(ua) : /\ WordAt(ua, <<"Trident", "/">>, i)
                        /\ \E j \in RvPositions(ua) : j >= i + 3}

HasTridentRv(ua) == TridentPositions(ua) # {}

\* the version after the first rv: that follows the leftmost such Trident/
TridentVersion(ua) ==
    LET i == Min(TridentPositions(ua))
        j == Min({x \in RvPositions(ua) : x >= i + 3})
    IN RunFrom(ua, j + 1, DIGIT_DOT)

NoOtherBrowserWord(ua) ==
    ~HasWord(ua, ChromiumFamilyWords \cup {<<"Safari">>})

\* the version of the IE token that begins furthest left
LeftmostIEVersion(ua) ==
    IF /\ HasToken(ua, MSIEMarker)
       /\ HasTridentRv(ua) =>
              Min(TokenPositions(ua, MSIEMarker)) < Min(TridentPositions(ua))
    THEN FirstVersion(ua, MSIEMarker)
    ELSE TridentVersion(ua)

(* C4 as stated: with no other browser's token present, a string with an   *)
(* MSIE <v> token is reported as Internet Explorer with version <v>; a     *)
(* string with no MSIE token but a Trident/...rv:<v> token is reported as  *)
(* Internet Explorer with the rv version; the version is never undefined.  *)
C4_AsStated ==
    (Returned /\ NoOtherBrowserWord(userAgent)) =>
        /\ HasToken(userAgent, MSIEMarker) =>
               /\ BrowserName = "Internet Explorer"
               /\ BrowserVersion = FirstVersion(userAgent, MSIEMarker)
        /\ (~HasToken(userAgent, MSIEMarker) /\ HasTridentRv(userAgent)) =>
               /\ BrowserName = "Internet Explorer"
               /\ BrowserVersion = TridentVersion(userAgent)
        /\ BrowserName = "Internet Explorer" => BrowserVersion # UNDEFINED

(* C4, amended: with no other browser's token present, a string with an    *)
(* MSIE <v> token or a Trident/...rv:<v> token is reported as Internet     *)
(* Explorer, and the version is that of whichever of the two tokens begins *)
(* further left in the string: the MSIE version only when no               *)
(* Trident/...rv: token stands before it.  The version is never undefined. *)
C4_LeftmostIEToken ==
    (Returned /\ NoOtherBrowserWord(userAgent)) =>
        /\ (HasToken(userAgent, MSIEMarker) \/ HasTridentRv(userAgent)) =>
               /\ BrowserName = "Internet Explorer"
               /\ BrowserVersion = LeftmostIEVersion(userAgent)
        /\ BrowserName = "Internet Explorer" =>
               BrowserVersion \notin {UNDEFINED, <<>>}

\* a Trident/...rv: token before an MSIE token: the rv version is reported
C4_Witness ==
    /\ Returned
    /\ NoOtherBrowserWord(userAgent)
    /\ HasToken(userAgent, MSIEMarker)
    /\ HasTridentRv(userAgent)
    /\ Min(TridentPositions(userAgent))
           < Min(TokenPositions(userAgent, MSIEMarker))
    /\ BrowserName = "Internet Explorer"
    /\ BrowserVersion = <<"1", "1">>

----------------------------------------------------------------------------
(* C5.  In both variants, every string that contains the words Windows     *)
(* Phone, with or without a version number after them, is reported with    *)
(* device type windows_phone and OS name Windows Phone, never as Android,  *)
(* even when it also contains Android <version>.                           *)

C5_WindowsPhoneWins ==
    (Returned /\ HasWord(userAgent, {<<"Windows Phone">>})) =>
        /\ DeviceType = DEVICE_TYPES.WINDOWS_PHONE
        /\ OsName = OS_NAMES.WINDOWS_PHONE

----------------------------------------------------------------------------
(* C6.  In both variants, every string that contains both the words Mac OS *)
(* X and the word iPhone, and not the words Windows Phone, is reported     *)
(* with device type ios and OS name iOS, never as macOS.                   *)

C6_IPhoneBeforeMacOS ==
    (/\ Returned
     /\ HasWord(userAgent, {<<"Mac OS X">>})
     /\ HasWord(userAgent, {<<"iPhone">>})
     /\ ~HasWord(userAgent, {<<"Windows Phone">>})) =>
        /\ DeviceType = DEVICE_TYPES.IOS
        /\ OsName = OS_NAMES.IOS

----------------------------------------------------------------------------
(* C7.  In both variants, every string that contains both the word Linux   *)
(* and the word Android, and none of Windows Phone, iPad and iPhone, is    *)
(* reported with device type android and OS name Android, never as a       *)
(* Linux PC.                                                               *)

C7_AndroidBeforeLinux ==
    (/\ Returned
     /\ HasWord(userAgent, {<<"Linux">>})
     /\ HasWord(userAgent, {<<"Android">>})
     /\ ~HasWord(userAgent, {<<"Windows Phone">>, <<"iPad">>, <<"iPhone">>})) =>
        /\ DeviceType = DEVICE_TYPES.ANDROID
        /\ OsName = OS_NAMES.ANDROID

----------------------------------------------------------------------------
(* C8.  In the flat variant, whenever the Android rule fires, isMobile is  *)
(* true, and isTablet is true exactly when the string has no mobile        *)
(* indicator (Mobile or Mobi) or has a tablet indicator (Tablet, SM-T      *)
(* followed by digits, or KF followed by two or more alphanumerics).       *)

HasMobileIndicator(ua) == HasWord(ua, {<<"Mobi">>})

HasTabletIndicator(ua) ==
    \/ HasWord(ua, {<<"Tablet">>})
    \/ \E i \in 1..Len(ua) : /\ ua[i] = "SM-T"
                             /\ i + 1 <= Len(ua)
                             /\ ua[i + 1] \in DIGIT
    \/ \E i \in 1..Len(ua) : /\ ua[i] = "KF"
                             /\ i + 2 <= Len(ua)
                             /\ ua[i + 1] \in ALNUM
                             /\ ua[i + 2] \in ALNUM

FlatAndroidFired == variant = "flat" /\ osFired = <<"Android">>

C8_FlatAndroidTabletPolicy ==
    FlatAndroidFired =>
        /\ deviceInfo.isMobile = TRUE
        /\ deviceInfo.isTablet =
               (~HasMobileIndicator(userAgent) \/ HasTabletIndicator(userAgent))

\* an Android string with both a mobile and a tablet indicator: a tablet
C8_Witness ==
    /\ FlatAndroidFired
    /\ HasMobileIndicator(userAgent)
    /\ HasTabletIndicator(userAgent)
    /\ deviceInfo.isMobile = TRUE
    /\ deviceInfo.isTablet = TRUE

----------------------------------------------------------------------------
(* C9.  In both variants the reported OS version never contains an         *)
(* underscore, and when one of the rules that take a version with          *)
(* underscores (iPad, iPhone, iPod, macOS) fires on a string whose only    *)
(* version token after the rule's marker (OS for the iOS rules, Mac OS X   *)
(* for macOS) is made of digits and underscores, the version it reports is *)
(* that token with every underscore replaced by a dot.                     *)

\* the positions of the version tokens that follow the marker w
VersionTokenPositions(ua, w) ==
    {i \in 1..Len(ua) : /\ WordAt(ua, w, i)
                        /\ i + Len(w) <= Len(ua)
                        /\ ua[i + Len(w)] \in DIGIT_US_DOT}

\* the only version token after the marker w, when there is exactly one
OnlyVersionToken(ua, w) ==
    LET i == CHOOSE x \in VersionTokenPositions(ua, w) : TRUE
    IN RunFrom(ua, i + Len(w), DIGIT_US_DOT)

HasOnlyUnderscoreToken(ua, w) ==
    /\ Cardinality(VersionTokenPositions(ua, w)) = 1
    /\ \E i \in 1..Len(OnlyVersionToken(ua, w)) :
           OnlyVersionToken(ua, w)[i] = "_"
    /\ \A i \in 1..Len(OnlyVersionToken(ua, w)) :
           OnlyVersionToken(ua, w)[i] # "."

Dotted(t) == [i \in 1..Len(t) |-> IF t[i] = "_" THEN "." ELSE t[i]]

MarkerOfRule(rule) ==
    IF rule = "macOS" THEN <<"Mac OS X", " ">> ELSE <<"OS", " ">>

UnderscoreRules == {"iPad", "iPhone", "iPod", "macOS"}

----------------------------------------------------------------------------
(* C10.  In both variants, on one pass at most one OS/device rule and at   *)
(* most one browser rule runs its block: once a rule of a chain has fired  *)
(* no later rule of that chain is evaluated, and the OS and browser names  *)
(* of the record are those of the one rule that fired, or the defaults     *)
(* when none did (or when the block of the rule that fired wrote no name). *)

OsChain ==
    {"WindowsPhone", "iPad", "iPhone", "iPod", "Android", "Windows", "macOS",
     "Linux"}

BrowserChain ==
    {"Edge", "Opera", "Firefox", "Chrome", "Safari", "InternetExplorer"}

\* the OS name that the block of an OS rule writes
OsNameOfRule(rule) ==
    CASE rule = "WindowsPhone" -> "Windows Phone"
      [] rule \in {"iPad", "iPhone", "iPod"} -> "iOS"
      [] rule = "Android" -> "Android"
      [] rule = "Windows" -> "Windows"
      [] rule = "macOS" -> "macOS"
      [] rule = "Linux" -> "Linux"

\* the browser name that the block of a browser rule writes
BrowserNameOfRule(rule) ==
    IF rule = "InternetExplorer" THEN "Internet Explorer" ELSE rule

DefaultOsName == IF variant = "flat" THEN undefined ELSE "unknown"

DefaultBrowserName == IF variant = "flat" THEN undefined ELSE "unknown"

C10_OneRulePerChain ==
    /\ Len(osFired) <= 1
    /\ Len(browserFired) <= 1
    /\ pc \in OsChain => (osFired = <<>> /\ browserFired = <<>>)
    /\ pc \in BrowserChain => browserFired = <<>>
    /\ pc \in BrowserChain \cup {"done"} =>
           OsName = IF osFired = <<>> THEN DefaultOsName
                    ELSE OsNameOfRule(osFired[1])
    /\ Returned =>
           BrowserName \in IF browserFired = <<>> THEN {DefaultBrowserName}
                           ELSE {BrowserNameOfRule(browserFired[1]),
                                 DefaultBrowserName}

\* a string on which a later rule of each chain would also match: only the
\* first rule of each chain has fired
C10_Witness ==
    /\ Returned
    /\ osFired = <<"Android">>
    /\ HasWord(userAgent, {<<"Linux">>})
    /\ browserFired = <<"Chrome">>
    /\ HasToken(userAgent, SafariMarker)
    /\ OsName = "Android"
    /\ BrowserName = "Chrome"

----------------------------------------------------------------------------
(* C11.  A string, the empty string included, on which no OS/device rule   *)
(* and no browser rule matches is answered with the all-default record:    *)
(* in the flat variant type unknown, isMobile and isTablet false, and os,  *)
(* osVersion, browser, browserVersion undefined; in the rich variant       *)
(* device.type, device.name, os.name, browser.name, browser.version,       *)
(* engine.name and engine.version all unknown and os.version undefined.    *)
(* A string that holds none of the words the patterns begin with is such a *)
(* string.                                                                 *)

\* the words with which the OS/device and browser patterns begin
RecognisedWords ==
    {<<"Windows Phone">>, <<"iPad">>, <<"iPhone">>, <<"iPod">>, <<"Android">>,
     <<"Windows NT">>, <<"Macintosh">>, <<"Linux">>, <<"Edg">>, <<"OPR">>,
     <<"Opera">>, <<"Firefox">>, <<"Chrome">>, <<"Cri", "OS">>,
     <<"Chromium">>, <<"Safari">>, <<"Version">>, <<"MSIE">>, <<"Trident">>}

NoRuleFired == osFired = <<>> /\ browserFired = <<>>

AllDefault ==
    IF variant = "flat"
    THEN /\ deviceInfo.type = "unknown"
         /\ deviceInfo.isMobile = FALSE
         /\ deviceInfo.isTablet = FALSE
         /\ deviceInfo.os = undefined
         /\ deviceInfo.osVersion = UNDEFINED
         /\ deviceInfo.browser = undefined
         /\ deviceInfo.browserVersion = UNDEFINED
    ELSE /\ deviceInfo.device.type = "unknown"
         /\ deviceInfo.device.name = "unknown"
         /\ deviceInfo.os.name = "unknown"
         /\ deviceInfo.os.version = UNDEFINED
         /\ deviceInfo.browser.name = "unknown"
         /\ deviceInfo.browser.version = <<"unknown">>
         /\ deviceInfo.engine.name = "unknown"
         /\ deviceInfo.engine.version = <<"unknown">>

C11_NoMatchGivesDefaults ==
    /\ ~HasWord(userAgent, RecognisedWords) => NoRuleFired
    /\ (Returned /\ NoRuleFired) => AllDefault

\* a non-empty string without any recognised word, returned with defaults
C11_Witness ==
    /\ Returned
    /\ variant = "rich"
    /\ Len(userAgent) > 0
    /\ ~HasWord(userAgent, RecognisedWords)
    /\ NoRuleFired
    /\ AllDefault

\* the empty string, returned with defaults
C11_WitnessEmpty == Returned /\ userAgent = <<>> /\ AllDefault

----------------------------------------------------------------------------
(* C12.  A call with the null reference as identifying string raises no    *)
(* exception and returns the same all-default record as a call with a      *)
(* string that matches nothing.                                            *)

C12_NullIsAnswered ==
    userAgent = null =>
        /\ pc # "threw"
        /\ Returned => AllDefault

----------------------------------------------------------------------------
(* C13.  The functions keep no state between calls.  Whatever calls came   *)
(* before, a call starts from a record of its own holding the defaults,    *)
(* two calls with the same arguments return records equal field for field, *)
(* and a record that was returned is never written by a later call.        *)

\* the calls that have returned, the one that returned last included
ReturnedCalls ==
    IF Returned
    THEN Append(allDeviceResults,
                [variant |-> variant, userAgent |-> userAgent,
                 platform |-> platform, order |-> order,
                 deviceInfo |-> deviceInfo])
    ELSE allDeviceResults

SameArguments(a, b) ==
    /\ a.variant = b.variant
    /\ a.userAgent = b.userAgent
    /\ a.platform = b.platform

C13_SameArgumentsSameRecord ==
    \A i, j \in 1..Len(ReturnedCalls) :
        SameArguments(ReturnedCalls[i], ReturnedCalls[j])
            => ReturnedCalls[i].deviceInfo = ReturnedCalls[j].deviceInfo

\* right after the allocation the record holds the defaults, whatever the
\* calls before have left
C13_FreshRecord == pc = "WindowsPhone" => AllDefault

\* a step leaves the records returned so far as they are
C13_ReturnedRecordsKept ==
    /\ Len(allDeviceResults') >= Len(allDeviceResults)
    /\ \A i \in 1..Len(allDeviceResults) :
           allDeviceResults'[i] = allDeviceResults[i]

C13_WitnessAfterOther ==
    /\ Returned
    /\ Len(allDeviceResults) = 1
    /\ allDeviceResults[1].userAgent # userAgent
    /\ allDeviceResults[1].variant = variant
    /\ NoRuleFired
    /\ AllDefault

----------------------------------------------------------------------------
(* C14.  In both variants a string with a Firefox/<v> token and neither an *)
(* Edge nor an Opera token is reported as Firefox with version <v>, also   *)
(* when Chrome/<c> and Safari/<s> tokens are present.                      *)

C14_FirefoxBeforeChromeAndSafari ==
    (/\ Returned
     /\ HasToken(userAgent, FirefoxMarker)
     /\ ~HasWord(userAgent, {<<"Edg">>, <<"OPR">>, <<"Opera">>})) =>
        /\ BrowserName = "Firefox"
        /\ BrowserVersion = FirstVersion(userAgent, FirefoxMarker)

\* a Firefox/ token after a Chrome/ token and beside a Safari/ token,
\* reported as Firefox
C14_Witness ==
    /\ Returned
    /\ HasToken(userAgent, FirefoxMarker)
    /\ HasToken(userAgent, ChromeMarker)
    /\ HasToken(userAgent, SafariMarker)
    /\ Min(TokenPositions(userAgent, ChromeMarker))
           < Min(TokenPositions(userAgent, FirefoxMarker))
    /\ BrowserName = "Firefox"
    /\ BrowserVersion = <<"6">>

----------------------------------------------------------------------------
(* C15.  In the rich variant the platform hint plays no part in the        *)
(* classification: two calls on the same string with different hints       *)
(* return records equal in every field but platform, and the platform      *)
(* field holds the hint as passed, the empty string when it was omitted.   *)

\* the hint a call passes, or the default of the parameter
HintOrDefault(p) == IF p = undefined THEN "" ELSE p

\* a record with the platform field blanked
WithoutPlatform(r) == [r EXCEPT !.platform = ""]

C15_PlatformIsOnlyCopied ==
    /\ (variant = "rich" /\ pc # "call")
           => deviceInfo.platform = HintOrDefault(platform)
    /\ \A i, j \in 1..Len(ReturnedCalls) :
           (/\ ReturnedCalls[i].variant = "rich"
            /\ ReturnedCalls[j].variant = "rich"
            /\ ReturnedCalls[i].userAgent = ReturnedCalls[j].userAgent)
               => /\ WithoutPlatform(ReturnedCalls[i].deviceInfo)
                        = WithoutPlatform(ReturnedCalls[j].deviceInfo)
                  /\ ReturnedCalls[i].deviceInfo.platform
                        = HintOrDefault(ReturnedCalls[i].platform)

\* the same string classified with the hint Win32 and then without a hint
C15_Witness ==
    /\ Returned
    /\ variant = "rich"
    /\ Len(allDeviceResults) = 1
    /\ allDeviceResults[1].variant = "rich"
    /\ allDeviceResults[1].userAgent = userAgent
    /\ allDeviceResults[1].platform = "Win32"
    /\ allDeviceResults[1].deviceInfo.platform = "Win32"
    /\ platform = undefined
    /\ deviceInfo.platform = ""
    /\ osFired # <<>>
    /\ deviceInfo.os = allDeviceResults[1].deviceInfo.os

----------------------------------------------------------------------------
(* C16.  In both variants, whenever the Linux rule fires the device type   *)
(* is 'pc', the OS is 'Linux' and the OS version stays undefined; in the   *)
(* flat variant isMobile and isTablet stay false.                          *)

LinuxFired == \E i \in 1..Len(osFired) : osFired[i] = "Linux"

C16_LinuxIsVersionlessPc ==
    LinuxFired =>
        /\ DeviceType = "pc"
        /\ OsName = "Linux"
        /\ OsVersion = UNDEFINED
        /\ variant = "flat" =>
               /\ deviceInfo.isMobile = FALSE
               /\ deviceInfo.isTablet = FALSE

\* the Linux rule fired on a string that holds more than the word Linux and
\* the call has returned
C16_Witness ==
    /\ Returned
    /\ LinuxFired
    /\ variant = "flat"
    /\ Len(userAgent) > 1
    /\ DeviceType = "pc"
    /\ OsName = "Linux"
    /\ OsVersion = UNDEFINED

----------------------------------------------------------------------------
(* C17.  In the rich variant no rule writes the pass-through and reserved  *)
(* fields: for every input string the record holds the input string as     *)
(* userAgentString, isBot false, device.model and device.manufacturer      *)
(* 'unknown' and os.architecture undefined.                                *)

C17_ReservedFieldsUntouched ==
    (variant = "rich" /\ pc # "call") =>
        /\ deviceInfo.userAgentString = userAgent
        /\ deviceInfo.isBot = FALSE
        /\ deviceInfo.device.model = "unknown"
        /\ deviceInfo.device.manufacturer = "unknown"
        /\ deviceInfo.os.architecture = undefined

\* a rich call on which a rule of each chain wrote to the record has returned
C17_Witness ==
    /\ Returned
    /\ variant = "rich"
    /\ osFired = <<"iPhone">>
    /\ browserFired # <<>>
    /\ deviceInfo.userAgentString = userAgent
    /\ deviceInfo.device.model = "unknown"
    /\ deviceInfo.isBot = FALSE

----------------------------------------------------------------------------
(* C18.  In the rich variant every name field of the record takes a value  *)
(* of its documented set, for every input.                                 *)

DocumentedDeviceTypes == {"android", "ios", "windows_phone", "pc", "unknown"}

DocumentedDeviceNames ==
    {"Android Phone", "Android Tablet", "iPhone", "iPad", "iPod Touch",
     "Windows Phone", "Windows PC", "macOS PC", "Linux PC", "unknown"}

DocumentedEngineNames ==
    {"Blink", "Gecko", "WebKit", "Trident", "Presto", "unknown"}

DocumentedOsNames ==
    {"Android", "iOS", "Windows Phone", "Windows", "macOS", "Linux",
     "unknown"}

DocumentedBrowserNames ==
    {"Edge", "Opera", "Firefox", "Chrome", "Safari", "Internet Explorer",
     "unknown"}

\* the name fields other than device.name
OtherNamesDocumented ==
    (variant = "rich" /\ pc # "call") =>
        /\ deviceInfo.device.type \in DocumentedDeviceTypes
        /\ deviceInfo.engine.name \in DocumentedEngineNames
        /\ deviceInfo.os.name \in DocumentedOsNames
        /\ deviceInfo.browser.name \in DocumentedBrowserNames

C18_NamesAreDocumented ==
    /\ OtherNamesDocumented
    /\ (variant = "rich" /\ pc # "call")
           => deviceInfo.device.name \in DocumentedDeviceNames

----------------------------------------------------------------------------
(* C19.  In both variants a string with the Android Edge token EdgA/<v> is *)
(* reported as Edge with version <v>: the browser is neither left at its   *)
(* default nor reported as Chrome.                                         *)

C19_AndroidEdgeIsEdge ==
    (Returned /\ HasToken(userAgent, EdgAMarker)) =>
        /\ BrowserName = "Edge"
        /\ ~HasToken(userAgent, EdgMarker \cup EdgeMarker) =>
               BrowserVersion = FirstVersion(userAgent, EdgAMarker)

----------------------------------------------------------------------------
(* C20.  In both variants a string with the legacy token Opera/<v> and no  *)
(* Edge token is reported as Opera with version <v>.                       *)

C20_LegacyOperaIsOpera ==
    (/\ Returned
     /\ HasToken(userAgent, OperaMarker)
     /\ ~HasWord(userAgent, {<<"Edg">>})) =>
        /\ BrowserName = "Opera"
        /\ ~HasToken(userAgent, OPRMarker) =>
               BrowserVersion = FirstVersion(userAgent, OperaMarker)

----------------------------------------------------------------------------
(* C21.  In both variants rule order alone guards the Chrome rule: when    *)
(* the Chrome marker (Chrome/<v> or CriOS/<v>) matches and none of the     *)
(* Edge, Opera and Firefox patterns matches, the browser is Chrome with    *)
(* version <v>, also when the letters Edg or OPR occur in the string.      *)

\* one of the patterns of the rules before the Chrome rule matches
EarlierBrowserPatternMatches ==
    IF variant = "flat"
    THEN \/ Test(FLAT_EDGE, userAgent)
         \/ Test(FLAT_OPERA, userAgent)
         \/ Test(FLAT_FIREFOX, userAgent)
    ELSE \/ Test(RICH_EDGE, userAgent)
         \/ Test(RICH_OPERA, userAgent)
         \/ Test(RICH_FIREFOX, userAgent)

C21_ChromeNeedsOnlyOrder ==
    (/\ Returned
     /\ HasToken(userAgent, ChromeMarker \cup CriOSMarker)
     /\ ~EarlierBrowserPatternMatches) =>
        /\ BrowserName = "Chrome"
        /\ BrowserVersion =
               FirstVersion(userAgent, ChromeMarker \cup CriOSMarker)

----------------------------------------------------------------------------
(* C22.  In both variants the Safari rule fires only when a Safari/ token  *)
(* and a Version/ token are both present, and when it does not fire the    *)
(* Internet Explorer rule is still evaluated: a string without Edge,       *)
(* Opera, Firefox or Chrome token that holds Safari/<b>, no Version/ token *)
(* and an Internet Explorer token is reported as Internet Explorer with    *)
(* the version of that token.                                              *)

SafariFired == \E i \in 1..Len(browserFired) : browserFired[i] = "Safari"

C22_SafariNeedsVersionToken ==
    /\ SafariFired =>
           /\ HasToken(userAgent, SafariMarker)
           /\ HasToken(userAgent, VersionMarker)
    /\ (/\ Returned
        /\ ~HasWord(userAgent, ChromiumFamilyWords)
        /\ HasToken(userAgent, SafariMarker)
        /\ ~HasWord(userAgent, {<<"Version">>})
        /\ HasToken(userAgent, MSIEMarker) \/ HasTridentRv(userAgent)) =>
           /\ BrowserName = "Internet Explorer"
           /\ BrowserVersion = LeftmostIEVersion(userAgent)

----------------------------------------------------------------------------
(* C23.  In both variants, when the Windows Phone rule fires the OS        *)
(* version is the numeric token after the marker, in the format            *)
(* Windows Phone <v> as well as in the legacy format Windows Phone OS <v>. *)

WindowsPhoneMarker == <<"Windows Phone", " ">>

LegacyWindowsPhoneMarker == <<"Windows Phone", " ", "OS", " ">>

WindowsPhoneFired ==
    \E i \in 1..Len(osFired) : osFired[i] = "WindowsPhone"

\* the positions of the Windows Phone tokens of either format
WindowsPhoneTokenPositions(ua) ==
    TokenPositions(ua, {WindowsPhoneMarker, LegacyWindowsPhoneMarker})

\* the version of the leftmost Windows Phone token of either format
WindowsPhoneVersion(ua) ==
    LET i == Min(WindowsPhoneTokenPositions(ua))
    IN IF WordAt(ua, LegacyWindowsPhoneMarker, i)
       THEN RunFrom(ua, i + Len(LegacyWindowsPhoneMarker), DIGIT_DOT)
       ELSE RunFrom(ua, i + Len(WindowsPhoneMarker), DIGIT_DOT)

C23_WindowsPhoneVersionBothFormats ==
    (/\ Returned
     /\ WindowsPhoneFired
     /\ WindowsPhoneTokenPositions(userAgent) # {}) =>
        OsVersion = WindowsPhoneVersion(userAgent)

----------------------------------------------------------------------------
(* C24.  In both variants a string in which Macintosh is followed by       *)
(* Mac OS X <tok>, that holds no iPad or iPhone token and matches no       *)
(* earlier OS rule, gives type 'pc', OS 'macOS' and as OS version the      *)
(* whole token <tok> with its underscores replaced by dots, whatever text  *)
(* stands between Macintosh and Mac OS X.                                  *)

MacOSXMarker == <<"Mac OS X", " ">>

\* the string has one Mac OS X <tok> token, after the word Macintosh
MacintoshThenOneMacToken(ua) ==
    /\ Cardinality(VersionTokenPositions(ua, MacOSXMarker)) = 1
    /\ \E i \in 1..Len(ua) :
           /\ WordAt(ua, <<"Macintosh">>, i)
           /\ \A j \in VersionTokenPositions(ua, MacOSXMarker) : i < j

NoRuleBeforeMacOSFired ==
    \A i \in 1..Len(osFired) : osFired[i] \in {"macOS", "Linux"}

C24_MacOSVersionWholeToken ==
    (/\ Returned
     /\ MacintoshThenOneMacToken(userAgent)
     /\ ~HasWord(userAgent, {<<"iPad">>, <<"iPhone">>})
     /\ NoRuleBeforeMacOSFired) =>
        /\ DeviceType = "pc"
        /\ OsName = "macOS"
        /\ OsVersion = Dotted(OnlyVersionToken(userAgent, MacOSXMarker))

----------------------------------------------------------------------------
(* C25.  In the rich variant, whenever the iPad, iPhone or iPod rule fires *)
(* os.version is defined and is the version token captured by the pattern  *)
(* of that rule, with underscores replaced by dots.                        *)

RichIOSRules == {"iPad", "iPhone", "iPod"}

PatternOfRichIOSRule(rule) ==
    IF rule = "iPad" THEN RICH_IPAD
    ELSE IF rule = "iPhone" THEN RICH_IPHONE
    ELSE RICH_IPOD

C25_IOSVersionFromRulePattern ==
    \A rule \in RichIOSRules :
        (variant = "rich" /\ osFired = <<rule>>) =>
            /\ OsVersion # UNDEFINED
            /\ OsVersion =
                   Dotted(Match(userAgent, PatternOfRichIOSRule(rule)).c[1])

----------------------------------------------------------------------------
(* C26.  In the rich variant, whenever the Android rule fires device.type  *)
(* is 'android' and the device name follows the policy of the flat flags:  *)
(* 'Android Tablet' exactly when the string has no mobile indicator or has *)
(* an explicit tablet indicator, 'Android Phone' otherwise.                *)

RichAndroidFired == variant = "rich" /\ osFired = <<"Android">>

C26_RichAndroidTabletPolicy ==
    RichAndroidFired =>
        /\ deviceInfo.device.type = "android"
        /\ deviceInfo.device.name =
               IF \/ ~HasMobileIndicator(userAgent)
                  \/ HasTabletIndicator(userAgent)
               THEN "Android Tablet"
               ELSE "Android Phone"

----------------------------------------------------------------------------
(* C27.  In the rich variant the engine record is decided by the browser   *)
(* rule that fired and the engine marker that rule reads: Edge and Chrome  *)
(* give Blink with the AppleWebKit/ version; Opera gives Presto with the   *)
(* Presto/ version when a Presto/ marker is present and Blink with the     *)
(* AppleWebKit/ version otherwise; Firefox gives Gecko with the Gecko/     *)
(* version; Safari gives WebKit with the AppleWebKit/ version; Internet    *)
(* Explorer gives Trident with the Trident/ version.  Without the marker,  *)
(* or when no browser rule fired, the engine stays 'unknown' in name and   *)
(* version; the name is 'unknown' exactly when the version is, and a known *)
(* engine comes with a known browser.                                      *)

UnknownEngine == [name |-> "unknown", version |-> UNKNOWN]

AppleWebKitMarker == {<<"AppleWebKit", "/">>}

PrestoMarker == {<<"Presto", "/">>}

TridentMarker == {<<"Trident", "/">>}

\* the engine of a marker followed by a version of digits and dots
EngineOfMarker(name, W) ==
    IF HasToken(userAgent, W)
    THEN [name |-> name, version |-> FirstVersion(userAgent, W)]
    ELSE UnknownEngine

\* the Gecko version that starts at position j: a date of eight digits, or
\* digits, a dot and digits; the empty sequence when neither stands there
GeckoVersionFrom(ua, j) ==
    LET whole == RunFrom(ua, j, DIGIT)
        k == j + Len(whole)
        fraction == IF k <= Len(ua) /\ ua[k] = "."
                    THEN RunFrom(ua, k + 1, DIGIT)
                    ELSE <<>>
    IN IF Len(whole) >= 8 THEN SubSeq(whole, 1, 8)
       ELSE IF Len(whole) >= 1 /\ Len(fraction) >= 1
       THEN whole \o <<".">> \o fraction
       ELSE <<>>

GeckoPositions(ua) ==
    {i \in 1..Len(ua) : /\ WordAt(ua, <<"Gecko", "/">>, i)
                        /\ GeckoVersionFrom(ua, i + 2) # <<>>}

GeckoEngine ==
    IF GeckoPositions(userAgent) # {}
    THEN [name |-> "Gecko",
          version |->
              GeckoVersionFrom(userAgent, Min(GeckoPositions(userAgent)) + 2)]
    ELSE UnknownEngine

\* the engine the claim gives to the browser rule that fired
ExpectedEngine ==
    IF browserFired = <<>> THEN UnknownEngine
    ELSE IF browserFired[1] \in {"Edge", "Chrome"}
    THEN EngineOfMarker("Blink", AppleWebKitMarker)
    ELSE IF browserFired[1] = "Opera"
    THEN IF HasToken(userAgent, PrestoMarker)
         THEN EngineOfMarker("Presto", PrestoMarker)
         ELSE EngineOfMarker("Blink", AppleWebKitMarker)
    ELSE IF browserFired[1] = "Firefox" THEN GeckoEngine
    ELSE IF browserFired[1] = "Safari"
    THEN EngineOfMarker("WebKit", AppleWebKitMarker)
    ELSE EngineOfMarker("Trident", TridentMarker)

C27_EngineFollowsBrowserRule ==
    (variant = "rich" /\ Returned) =>
        /\ deviceInfo.engine = ExpectedEngine
        /\ deviceInfo.engine.name = "unknown"
               <=> deviceInfo.engine.version = UNKNOWN
        /\ deviceInfo.engine.name # "unknown"
               => deviceInfo.browser.name # "unknown"

\* legacy Opera with both an AppleWebKit/ and a Presto/ marker: Presto
C27_Witness ==
    /\ variant = "rich"
    /\ Returned
    /\ browserFired = <<"Opera">>
    /\ HasToken(userAgent, AppleWebKitMarker)
    /\ HasToken(userAgent, PrestoMarker)
    /\ deviceInfo.engine = [name |-> "Presto", version |-> <<"2", ".", "1">>]

\* Firefox with a Gecko/ marker that carries no version: engine unknown
C27_WitnessNoMarker ==
    /\ variant = "rich"
    /\ Returned
    /\ browserFired = <<"Firefox">>
    /\ HasWord(userAgent, {<<"Gecko", "/", "5">>})
    /\ deviceInfo.engine = UnknownEngine
    /\ deviceInfo.browser.name = "Firefox"

----------------------------------------------------------------------------
(* C28.  The two helpers write disjoint fields and commute: in both        *)
(* variants a step of _detectOSAndDevice leaves the browser and engine     *)
(* fields as they are, a step of _detectBrowser leaves the device, OS and  *)
(* flag fields as they are, and running _detectBrowser before              *)
(* _detectOSAndDevice returns the record of the facade's order.            *)

\* the fields of a record of variant v that belong to the browser helper
BrowserFields(v, d) ==
    IF v = "flat" THEN <<d.browser, d.browserVersion>>
    ELSE <<d.browser, d.engine>>

\* the fields of a record of variant v that belong to the OS helper
OSAndDeviceFields(v, d) ==
    IF v = "flat" THEN <<d.type, d.os, d.osVersion, d.isMobile, d.isTablet>>
    ELSE <<d.device, d.os>>

C28_DisjointWrites ==
    /\ pc \in OsChain =>
           BrowserFields(variant, deviceInfo')
               = BrowserFields(variant, deviceInfo)
    /\ pc \in BrowserChain =>
           OSAndDeviceFields(variant, deviceInfo')
               = OSAndDeviceFields(variant, deviceInfo)

C28_OrderDoesNotMatter ==
    \A i, j \in 1..Len(ReturnedCalls) :
        (/\ SameArguments(ReturnedCalls[i], ReturnedCalls[j])
         /\ ReturnedCalls[i].order # ReturnedCalls[j].order)
            => ReturnedCalls[i].deviceInfo = ReturnedCalls[j].deviceInfo

C28_HelpersCommute ==
    /\ []C28_OrderDoesNotMatter
    /\ [][C28_DisjointWrites]_vars

\* a string on which a rule of each helper fired, classified in the facade's
\* order and then with the browser helper first
C28_Witness ==
    /\ Returned
    /\ order = "swapped"
    /\ Len(allDeviceResults) = 1
    /\ allDeviceResults[1].order = "facade"
    /\ osFired # <<>>
    /\ browserFired # <<>>
    /\ deviceInfo = allDeviceResults[1].deviceInfo

----------------------------------------------------------------------------
(* C29.  In both variants classification only narrows the record: during a *)
(* classification pass a field that holds a non-default value is never     *)
(* afterwards given its default ('unknown', false or undefined), and every *)
(* field that no fired rule writes still holds the default the facade gave *)
(* it.                                                                     *)

FlatFields ==
    {"type", "os", "osVersion", "isMobile", "isTablet", "browser",
     "browserVersion"}

RichFields ==
    {"device.type", "device.name", "device.model", "device.manufacturer",
     "engine.name", "engine.version", "os.name", "os.version",
     "os.architecture", "browser.name", "browser.version", "isBot"}

FieldsOfVariant == IF variant = "flat" THEN FlatFields ELSE RichFields

\* the value of field f in record d
Field(d, f) ==
    CASE f = "type" -> d.type
      [] f = "os" -> d.os
      [] f = "osVersion" -> d.osVersion
      [] f = "isMobile" -> d.isMobile
      [] f = "isTablet" -> d.isTablet
      [] f = "browser" -> d.browser
      [] f = "browserVersion" -> d.browserVersion
      [] f = "device.type" -> d.device.type
      [] f = "device.name" -> d.device.name
      [] f = "device.model" -> d.device.model
      [] f = "device.manufacturer" -> d.device.manufacturer
      [] f = "engine.name" -> d.engine.name
      [] f = "engine.version" -> d.engine.version
      [] f = "os.name" -> d.os.name
      [] f = "os.version" -> d.os.version
      [] f = "os.architecture" -> d.os.architecture
      [] f = "browser.name" -> d.browser.name
      [] f = "browser.version" -> d.browser.version
      [] f = "isBot" -> d.isBot

\* the default the facade gives to field f
DefaultOfField(f) ==
    CASE f \in {"type", "device.type", "device.name", "device.model",
                "device.manufacturer", "engine.name", "os.name",
                "browser.name"} -> "unknown"
      [] f \in {"engine.version", "browser.version"} -> <<"unknown">>
      [] f \in {"os", "browser", "os.architecture"} -> "undefined"
      [] f \in {"osVersion", "browserVersion", "os.version"}
             -> <<"undefined">>
      [] f \in {"isMobile", "isTablet", "isBot"} -> FALSE

\* the fields the block of a rule may write
FieldsWrittenBy(rule) ==
    IF rule \in BrowserChain
    THEN {"browser", "browserVersion", "browser.name", "browser.version",
          "engine.name", "engine.version"}
    ELSE {"type", "os", "device.type", "device.name", "os.name"}
         \cup (IF rule # "Linux" THEN {"osVersion", "os.version"} ELSE {})
         \cup (IF rule \in {"WindowsPhone", "iPad", "iPhone", "Android"}
               THEN {"isMobile"} ELSE {})
         \cup (IF rule \in {"iPad", "Android"} THEN {"isTablet"} ELSE {})

\* the fields some fired rule may have written
FieldsOfFiredRules ==
    UNION ({FieldsWrittenBy(osFired[i]) : i \in 1..Len(osFired)}
           \cup {FieldsWrittenBy(browserFired[i]) :
                     i \in 1..Len(browserFired)})

C29_UnwrittenFieldsAreDefault ==
    pc # "call" =>
        \A f \in FieldsOfVariant \ FieldsOfFiredRules :
            Field(deviceInfo, f) = DefaultOfField(f)

\* a step of a classification pass gives no field its default back
C29_NoFieldBackToDefault ==
    (pc \in OsChain \cup BrowserChain) =>
        \A f \in FieldsOfVariant :
            Field(deviceInfo, f) # DefaultOfField(f)
                => Field(deviceInfo', f) # DefaultOfField(f)

C29_OnlyNarrows ==
    /\ []C29_UnwrittenFieldsAreDefault
    /\ [][C29_NoFieldBackToDefault]_vars

\* a rule of each chain fired and wrote, the flags of the mobile OS rule
\* still stand at the return, and a field no fired rule writes is default
C29_Witness ==
    /\ Returned
    /\ variant = "flat"
    /\ osFired = <<"WindowsPhone">>
    /\ browserFired = <<"InternetExplorer">>
    /\ deviceInfo.isMobile = TRUE
    /\ deviceInfo.isTablet = FALSE
    /\ deviceInfo.browser = "Internet Explorer"


----------------------------------------------------------------------------
\* C30

\* the tuples (type, os, isMobile, isTablet) a flat record may return
FlatTuples ==
    {<<DEVICE_TYPES.UNKNOWN, undefined, FALSE, FALSE>>,
     <<DEVICE_TYPES.WINDOWS_PHONE, OS_NAMES.WINDOWS_PHONE, TRUE, FALSE>>,
     <<DEVICE_TYPES.IOS, OS_NAMES.IOS, TRUE, TRUE>>,
     <<DEVICE_TYPES.IOS, OS_NAMES.IOS, TRUE, FALSE>>,
     <<DEVICE_TYPES.ANDROID, OS_NAMES.ANDROID, TRUE, TRUE>>,
     <<DEVICE_TYPES.ANDROID, OS_NAMES.ANDROID, TRUE, FALSE>>,
     <<DEVICE_TYPES.PC, OS_NAMES.WINDOWS, FALSE, FALSE>>,
     <<DEVICE_TYPES.PC, OS_NAMES.MACOS, FALSE, FALSE>>,
     <<DEVICE_TYPES.PC, OS_NAMES.LINUX, FALSE, FALSE>>}

\* the tuple of record d
TupleOf(d) == <<d.type, d.os, d.isMobile, d.isTablet>>

MobileTypes ==
    {DEVICE_TYPES.WINDOWS_PHONE, DEVICE_TYPES.IOS, DEVICE_TYPES.ANDROID}

\* C30: in the flat variant the tuple (type, os, isMobile, isTablet) of every
\* returned record is one of the nine listed tuples; isTablet implies
\* isMobile, isMobile holds exactly for the types windows_phone, ios and
\* android, and browser is defined exactly when browserVersion is defined.
C30_FlatTuples ==
    (Returned /\ variant = "flat") =>
        /\ TupleOf(deviceInfo) \in FlatTuples
        /\ deviceInfo.isTablet => deviceInfo.isMobile
        /\ deviceInfo.isMobile <=> deviceInfo.type \in MobileTypes
        /\ deviceInfo.browser # undefined
               <=> deviceInfo.browserVersion # UNDEFINED

\* a flat call returned a tablet with a browser named
C30_Witness ==
    /\ Returned
    /\ variant = "flat"
    /\ osFired = <<"iPad">>
    /\ deviceInfo.isTablet
    /\ deviceInfo.isMobile
    /\ deviceInfo.browser # undefined

\* each of the five types was returned by a flat call
C30_WitnessUnknown ==
    Returned /\ variant = "flat" /\ osFired = <<>> /\ browserFired = <<>>
    /\ TupleOf(deviceInfo) = <<DEVICE_TYPES.UNKNOWN, undefined, FALSE, FALSE>>

C30_WitnessAndroidPhone ==
    Returned /\ variant = "flat"
    /\ TupleOf(deviceInfo)
           = <<DEVICE_TYPES.ANDROID, OS_NAMES.ANDROID, TRUE, FALSE>>

C30_WitnessLinux ==
    Returned /\ variant = "flat"
    /\ TupleOf(deviceInfo) = <<DEVICE_TYPES.PC, OS_NAMES.LINUX, FALSE, FALSE>>

============================================================================
